---- MODULE Spec2Model ----
(***************************************************************************)
(* Streaming control-flow reconstruction engine of the callgrind profile   *)
(* generator (class CallgrindGenerator, src/test2.cpp lines 769-1468).     *)
(* The host simulator loads the static PC index, optionally sets options,  *)
(* and then streams recordExecution calls; every call is one action.       *)
(***************************************************************************)
EXTENDS Integers, Sequences, FiniteSets, TLC

(***************************************************************************)
(* Program constants                                                       *)
(***************************************************************************)
MAX_EVENTS == 10
EVENT_IR == 0
EVENT_CYCLE == 1
EVENT_BC == 2
EVENT_BCM == 3
EVENT_BI == 4
EVENT_BIM == 5

EventIdx == 0 .. (MAX_EVENTS - 1)

\* BranchType
BranchType ==
  {"NONE", "BRANCH", "DIRECT_JUMP", "INDIRECT_JUMP", "CALL", "RETURN",
   "TAIL_CALL", "FALL_THROUGH"}

\* FunctionType
FunctionType == {"NORMAL", "SAVE_HELPER", "RESTORE_HELPER"}

(***************************************************************************)
(* std::string contents.  Names and assembly texts are TLA+ strings; the   *)
(* character-level operations of the code (prefix compare, substring       *)
(* search) work on their spelling.                                         *)
(***************************************************************************)
Chars(s) ==
  CASE s = "" -> << >>
    [] s = "main" -> <<"m", "a", "i", "n">>
    [] s = "f" -> <<"f">>
    [] s = "g" -> <<"g">>
    [] s = "h" -> <<"h">>
    [] s = "a" -> <<"a">>
    [] s = "b" -> <<"b">>
    [] s = "loop" -> <<"l", "o", "o", "p">>
    [] s = "reset" -> <<"r", "e", "s", "e", "t">>
    [] s = "user_fn" -> <<"u", "s", "e", "r", "_", "f", "n">>
    [] s = "unknown" -> <<"u", "n", "k", "n", "o", "w", "n">>
    [] s = "__riscv_save_0" ->
         <<"_", "_", "r", "i", "s", "c", "v", "_", "s", "a", "v", "e", "_", "0">>
    [] s = "__riscv_restore_0" ->
         <<"_", "_", "r", "i", "s", "c", "v", "_", "r", "e", "s", "t", "o", "r",
           "e", "_", "0">>
    [] s = "__riscv_sav" ->
         <<"_", "_", "r", "i", "s", "c", "v", "_", "s", "a", "v">>
    [] s = "addi" -> <<"a", "d", "d", "i">>
    [] s = "c.addi" -> <<"c", ".", "a", "d", "d", "i">>
    [] s = "jal" -> <<"j", "a", "l">>
    [] s = "j" -> <<"j">>
    [] s = "ret" -> <<"r", "e", "t">>
    [] s = "bne" -> <<"b", "n", "e">>
    [] s = "c.j" -> <<"c", ".", "j">>

SAVE_PREFIX == <<"_", "_", "r", "i", "s", "c", "v", "_", "s", "a", "v", "e">>
RESTORE_PREFIX ==
  <<"_", "_", "r", "i", "s", "c", "v", "_", "r", "e", "s", "t", "o", "r", "e">>

\* std::string_view::substr(0, n): the first n characters, or all if shorter
Substr0(cs, n) == SubSeq(cs, 1, IF n < Len(cs) THEN n ELSE Len(cs))

\* std::string::find(pat) != npos
Contains(cs, pat) ==
  \E k \in 1 .. (Len(cs) - Len(pat) + 1) :
    SubSeq(cs, k, k + Len(pat) - 1) = pat

determineFunctionType(func_name) ==
  LET sv == Chars(func_name) IN
  IF Substr0(sv, Len(SAVE_PREFIX)) = SAVE_PREFIX THEN "SAVE_HELPER"
  ELSE IF Substr0(sv, Len(RESTORE_PREFIX)) = RESTORE_PREFIX THEN "RESTORE_HELPER"
  ELSE "NORMAL"

isSaveHelper(type) == type = "SAVE_HELPER"
isRestoreHelper(type) == type = "RESTORE_HELPER"
isCompilerHelper(type) == type # "NORMAL"

detectInstructionSize(assembly) ==
  IF Contains(Chars(assembly), <<"c", ".">>)
       \/ Contains(Chars(assembly), <<"\t", "c", ".">>)
  THEN 2 ELSE 4

(***************************************************************************)
(* Data structures                                                         *)
(***************************************************************************)
\* uint64_t.  A counter is held as the representative nearest to zero of its
\* class modulo 2^64: an integer x >= 0 is the value x, an integer x < 0 is
\* the value 2^64 + x.  The code's wrapping += and - are then + and - of the
\* representatives; the order of two values is ULess, and an addition wraps
\* when AddCarries holds.
ULess(x, y) == (x >= 0 /\ y < 0) \/ ((x >= 0) = (y >= 0) /\ x < y)
AddCarries(x, c) == (x < 0 \/ c < 0) /\ ((x < 0 /\ c < 0) \/ x + c >= 0)

ZeroEvents == [i \in EventIdx |-> 0]

\* PCInfo() as default-constructed
NewPCInfo ==
  [func |-> "", assembly |-> "", file |-> "", line |-> 0,
   event |-> ZeroEvents, func_type |-> "NORMAL"]

\* CallTargetInfo()
NewCallTargetInfo ==
  [count |-> 0, inclusive_events |-> ZeroEvents, is_fall_through |-> FALSE]

\* BranchInfo()
NewBranchInfo ==
  [total_executed |-> 0, taken_target |-> 0, taken_count |-> 0,
   fallthrough_target |-> 0, fallthrough_count |-> 0]

\* unordered_map::operator[]: the entry, default-constructed when absent
At(m, k, dflt) == IF k \in DOMAIN m THEN m[k] ELSE dflt
Put(m, k, v) == [x \in (DOMAIN m) \cup {k} |-> IF x = k THEN v ELSE m[x]]

\* std::stack: the top is the last element of the sequence
Top(s) == s[Len(s)]
Pop(s) == SubSeq(s, 1, Len(s) - 1)

(***************************************************************************)
(* Engine state.  The first block are the members of CallgrindGenerator.   *)
(***************************************************************************)
VARIABLES
  info,                \* unordered_map<uint64_t, PCInfo>
  calls,               \* from_pc -> to_pc -> CallTargetInfo, keyed <<from, to>>
  jumps,               \* from_pc -> to_pc -> count, keyed <<from, to>>
  branches,            \* from_pc -> BranchInfo
  call_stack,          \* std::stack<CallStackEntry>
  last_pc,
  last_dest_reg,
  last_was_branch,
  last_inst_size,
  accumulated_events,  \* the running totals
  last_func_name,
  real_caller_pc,
  real_caller_func,
  collect_jumps,
  dump_instr,
  event_names,
  num_events,
  \* the file that writeOutput writes
  out,
  \* the host simulator driving the engine
  scenario,            \* which program and trace the host runs
  objdump,             \* loadPCInfo calls the host still has to make
  script,              \* recordExecution calls of the scenario still to come
  nfree,               \* records issued after the scenario's trace
  options_set,         \* the host has called setOptions
  \* history of the run, written by no engine code
  steps,               \* number of recordExecution calls so far
  last_type,           \* classification dispatched by the latest record
  credited,            \* pc -> event counts the host passed to record
  window,              \* per stack frame: host deltas recorded since its push
  prev_depth,          \* depth of the shadow stack before the latest record
  max_depth,           \* greatest depth the shadow stack has had
  oob_write,           \* a store has landed outside an event array
  last_event,          \* event index passed to the latest record
  wraps,               \* per stack frame: the totals that wrapped since its push
  last_call,           \* the recording method the host called last
  before,              \* the last_* members and the stack before the latest record
  \* member of the first draft of the class (src/test.cpp) only
  tail_call_chain,     \* std::vector<std::pair<uint64_t, uint64_t>>
  \* RegisterArray<N> (src/registerAccessor.hpp) and the program using it
  reg_,                \* std::array<uint16_t, N>
  reg_result,          \* what the latest call returned
  reg_index,           \* position the latest call used in reg_ (-1: none)
  reg_fault,           \* how an access outside reg_ came out ("none": no such access)
  reg_calls            \* number of calls made so far

engine_vars ==
  <<info, calls, jumps, branches, call_stack, last_pc, last_dest_reg,
    last_was_branch, last_inst_size, accumulated_events, last_func_name,
    real_caller_pc, real_caller_func, collect_jumps, dump_instr, event_names,
    num_events>>
host_vars == <<scenario, objdump, script, nfree, options_set>>
history_vars == <<steps, last_type, credited, window, prev_depth, max_depth,
    oob_write, last_event, wraps, last_call, before>>
register_vars == <<reg_, reg_result, reg_index, reg_fault, reg_calls>>
vars == <<engine_vars, out, host_vars, history_vars, tail_call_chain,
          register_vars>>

\* what a record finds of the previous one
LastState ==
  [pc |-> last_pc, dest_reg |-> last_dest_reg, was_branch |-> last_was_branch,
   inst_size |-> last_inst_size, func_name |-> last_func_name,
   call_stack |-> call_stack]

\* the same before the first record: the members as the constructor sets them
NoRecord ==
  [pc |-> 0, dest_reg |-> 0 - 1, was_branch |-> FALSE, inst_size |-> 4,
   func_name |-> "", call_stack |-> << >>]

\* the members that detectBranchType and handleBranch read or write
Engine ==
  [info |-> info, calls |-> calls, jumps |-> jumps, branches |-> branches,
   call_stack |-> call_stack, accumulated_events |-> accumulated_events,
   real_caller_pc |-> real_caller_pc, real_caller_func |-> real_caller_func,
   collect_jumps |-> collect_jumps]

(***************************************************************************)
(* detectBranchType                                                        *)
(***************************************************************************)
\* detectBranchType whose return test also compares the return address
detectBranchType_ReturnAddress(E, from_pc, to_pc, dest_reg, is_sequential) ==
  IF from_pc \notin DOMAIN E.info \/ to_pc \notin DOMAIN E.info
  THEN (IF is_sequential THEN "BRANCH" ELSE "DIRECT_JUMP")
  ELSE
    LET from_info == E.info[from_pc]
        to_info == E.info[to_pc]
        from_type == from_info.func_type
        to_type == to_info.func_type
    IN
    IF isCompilerHelper(from_type) /\ isRestoreHelper(from_type)
         /\ ~isCompilerHelper(to_type)
    THEN "RETURN"
    ELSE IF isCompilerHelper(from_type) /\ isRestoreHelper(from_type)
              /\ isRestoreHelper(to_type) /\ is_sequential
    THEN "NONE"
    ELSE IF is_sequential /\ from_info.func # to_info.func
              /\ ~isCompilerHelper(from_type)
    THEN "FALL_THROUGH"
    ELSE IF ~is_sequential /\ isCompilerHelper(to_type) /\ isSaveHelper(to_type)
    THEN "CALL"
    ELSE IF ~is_sequential /\ isCompilerHelper(to_type) /\ isRestoreHelper(to_type)
    THEN "TAIL_CALL"
    ELSE IF ~is_sequential /\ E.call_stack # << >>
              /\ Top(E.call_stack).caller_pc \in DOMAIN E.info
              /\ to_info.func = E.info[Top(E.call_stack).caller_pc].func
              /\ to_pc = Top(E.call_stack).caller_pc + 4
    THEN "RETURN"
    ELSE IF ~is_sequential /\ from_info.func # to_info.func
    THEN (IF dest_reg = 0 THEN "TAIL_CALL" ELSE "CALL")
    ELSE IF is_sequential
    THEN "BRANCH"
    ELSE IF to_pc < from_pc
    THEN "BRANCH"
    ELSE (IF (to_pc - from_pc) <= 32 THEN "BRANCH" ELSE "DIRECT_JUMP")

\* detectBranchType that takes every dest_reg but a link register for a tail call
detectBranchType_UnknownIsTail(E, from_pc, to_pc, dest_reg, is_sequential) ==
  IF from_pc \notin DOMAIN E.info \/ to_pc \notin DOMAIN E.info
  THEN (IF is_sequential THEN "BRANCH" ELSE "DIRECT_JUMP")
  ELSE
    LET from_info == E.info[from_pc]
        to_info == E.info[to_pc]
        from_type == from_info.func_type
        to_type == to_info.func_type
    IN
    IF isCompilerHelper(from_type) /\ isRestoreHelper(from_type)
         /\ ~isCompilerHelper(to_type)
    THEN "RETURN"
    ELSE IF isCompilerHelper(from_type) /\ isRestoreHelper(from_type)
              /\ isRestoreHelper(to_type) /\ is_sequential
    THEN "NONE"
    ELSE IF is_sequential /\ from_info.func # to_info.func
              /\ ~isCompilerHelper(from_type)
    THEN "FALL_THROUGH"
    ELSE IF ~is_sequential /\ isCompilerHelper(to_type) /\ isSaveHelper(to_type)
    THEN "CALL"
    ELSE IF ~is_sequential /\ isCompilerHelper(to_type) /\ isRestoreHelper(to_type)
    THEN "TAIL_CALL"
    ELSE IF ~is_sequential /\ E.call_stack # << >>
              /\ Top(E.call_stack).caller_pc \in DOMAIN E.info
              /\ to_info.func = E.info[Top(E.call_stack).caller_pc].func
    THEN "RETURN"
    ELSE IF ~is_sequential /\ from_info.func # to_info.func
    THEN (IF dest_reg <= 0 THEN "TAIL_CALL" ELSE "CALL")
    ELSE IF is_sequential
    THEN "BRANCH"
    ELSE IF to_pc < from_pc
    THEN "BRANCH"
    ELSE (IF (to_pc - from_pc) <= 32 THEN "BRANCH" ELSE "DIRECT_JUMP")

\* detectBranchType whose forward window ends before 32 bytes
detectBranchType_Below32(E, from_pc, to_pc, dest_reg, is_sequential) ==
  IF from_pc \notin DOMAIN E.info \/ to_pc \notin DOMAIN E.info
  THEN (IF is_sequential THEN "BRANCH" ELSE "DIRECT_JUMP")
  ELSE
    LET from_info == E.info[from_pc]
        to_info == E.info[to_pc]
        from_type == from_info.func_type
        to_type == to_info.func_type
    IN
    IF isCompilerHelper(from_type) /\ isRestoreHelper(from_type)
         /\ ~isCompilerHelper(to_type)
    THEN "RETURN"
    ELSE IF isCompilerHelper(from_type) /\ isRestoreHelper(from_type)
              /\ isRestoreHelper(to_type) /\ is_sequential
    THEN "NONE"
    ELSE IF is_sequential /\ from_info.func # to_info.func
              /\ ~isCompilerHelper(from_type)
    THEN "FALL_THROUGH"
    ELSE IF ~is_sequential /\ isCompilerHelper(to_type) /\ isSaveHelper(to_type)
    THEN "CALL"
    ELSE IF ~is_sequential /\ isCompilerHelper(to_type) /\ isRestoreHelper(to_type)
    THEN "TAIL_CALL"
    ELSE IF ~is_sequential /\ E.call_stack # << >>
              /\ Top(E.call_stack).caller_pc \in DOMAIN E.info
              /\ to_info.func = E.info[Top(E.call_stack).caller_pc].func
    THEN "RETURN"
    ELSE IF ~is_sequential /\ from_info.func # to_info.func
    THEN (IF dest_reg = 0 THEN "TAIL_CALL" ELSE "CALL")
    ELSE IF is_sequential
    THEN "BRANCH"
    ELSE IF to_pc < from_pc
    THEN "BRANCH"
    ELSE (IF (to_pc - from_pc) < 32 THEN "BRANCH" ELSE "DIRECT_JUMP")

\* detectBranchType that takes a linking jump inside one function for a call
detectBranchType_LinkIsCall(E, from_pc, to_pc, dest_reg, is_sequential) ==
  IF from_pc \notin DOMAIN E.info \/ to_pc \notin DOMAIN E.info
  THEN (IF is_sequential THEN "BRANCH" ELSE "DIRECT_JUMP")
  ELSE
    LET from_info == E.info[from_pc]
        to_info == E.info[to_pc]
        from_type == from_info.func_type
        to_type == to_info.func_type
    IN
    IF isCompilerHelper(from_type) /\ isRestoreHelper(from_type)
         /\ ~isCompilerHelper(to_type)
    THEN "RETURN"
    ELSE IF isCompilerHelper(from_type) /\ isRestoreHelper(from_type)
              /\ isRestoreHelper(to_type) /\ is_sequential
    THEN "NONE"
    ELSE IF is_sequential /\ from_info.func # to_info.func
              /\ ~isCompilerHelper(from_type)
    THEN "FALL_THROUGH"
    ELSE IF ~is_sequential /\ isCompilerHelper(to_type) /\ isSaveHelper(to_type)
    THEN "CALL"
    ELSE IF ~is_sequential /\ isCompilerHelper(to_type) /\ isRestoreHelper(to_type)
    THEN "TAIL_CALL"
    ELSE IF ~is_sequential /\ E.call_stack # << >>
              /\ Top(E.call_stack).caller_pc \in DOMAIN E.info
              /\ to_info.func = E.info[Top(E.call_stack).caller_pc].func
    THEN "RETURN"
    ELSE IF ~is_sequential /\ from_info.func # to_info.func
    THEN (IF dest_reg = 0 THEN "TAIL_CALL" ELSE "CALL")
    ELSE IF is_sequential
    THEN "BRANCH"
    ELSE IF dest_reg = 1
    THEN "CALL"
    ELSE IF to_pc < from_pc
    THEN "BRANCH"
    ELSE (IF (to_pc - from_pc) <= 32 THEN "BRANCH" ELSE "DIRECT_JUMP")

\* detectBranchType that takes a synthesized entry for a missing one
detectBranchType_UnknownFunction(E, from_pc, to_pc, dest_reg, is_sequential) ==
  IF from_pc \notin DOMAIN E.info \/ to_pc \notin DOMAIN E.info
       \/ E.info[to_pc].file = "unknown"
  THEN (IF is_sequential THEN "BRANCH" ELSE "DIRECT_JUMP")
  ELSE
    LET from_info == E.info[from_pc]
        to_info == E.info[to_pc]
        from_type == from_info.func_type
        to_type == to_info.func_type
    IN
    IF isCompilerHelper(from_type) /\ isRestoreHelper(from_type)
         /\ ~isCompilerHelper(to_type)
    THEN "RETURN"
    ELSE IF isCompilerHelper(from_type) /\ isRestoreHelper(from_type)
              /\ isRestoreHelper(to_type) /\ is_sequential
    THEN "NONE"
    ELSE IF is_sequential /\ from_info.func # to_info.func
              /\ ~isCompilerHelper(from_type)
    THEN "FALL_THROUGH"
    ELSE IF ~is_sequential /\ isCompilerHelper(to_type) /\ isSaveHelper(to_type)
    THEN "CALL"
    ELSE IF ~is_sequential /\ isCompilerHelper(to_type) /\ isRestoreHelper(to_type)
    THEN "TAIL_CALL"
    ELSE IF ~is_sequential /\ E.call_stack # << >>
              /\ Top(E.call_stack).caller_pc \in DOMAIN E.info
              /\ to_info.func = E.info[Top(E.call_stack).caller_pc].func
    THEN "RETURN"
    ELSE IF ~is_sequential /\ from_info.func # to_info.func
    THEN (IF dest_reg = 0 THEN "TAIL_CALL" ELSE "CALL")
    ELSE IF is_sequential
    THEN "BRANCH"
    ELSE IF to_pc < from_pc
    THEN "BRANCH"
    ELSE (IF (to_pc - from_pc) <= 32 THEN "BRANCH" ELSE "DIRECT_JUMP")

detectBranchType(E, from_pc, to_pc, dest_reg, is_sequential) ==
  IF from_pc \notin DOMAIN E.info \/ to_pc \notin DOMAIN E.info
  THEN (IF is_sequential THEN "BRANCH" ELSE "DIRECT_JUMP")
  ELSE
    LET from_info == E.info[from_pc]
        to_info == E.info[to_pc]
        from_type == from_info.func_type
        to_type == to_info.func_type
    IN
    IF isCompilerHelper(from_type) /\ isRestoreHelper(from_type)
         /\ ~isCompilerHelper(to_type)
    THEN "RETURN"
    ELSE IF isCompilerHelper(from_type) /\ isRestoreHelper(from_type)
              /\ isRestoreHelper(to_type) /\ is_sequential
    THEN "NONE"
    ELSE IF is_sequential /\ from_info.func # to_info.func
              /\ ~isCompilerHelper(from_type)
    THEN "FALL_THROUGH"
    ELSE IF ~is_sequential /\ isCompilerHelper(to_type) /\ isSaveHelper(to_type)
    THEN "CALL"
    ELSE IF ~is_sequential /\ isCompilerHelper(to_type) /\ isRestoreHelper(to_type)
    THEN "TAIL_CALL"
    ELSE IF ~is_sequential /\ E.call_stack # << >>
              /\ Top(E.call_stack).caller_pc \in DOMAIN E.info
              /\ to_info.func = E.info[Top(E.call_stack).caller_pc].func
    THEN "RETURN"
    ELSE IF ~is_sequential /\ from_info.func # to_info.func
    THEN (IF dest_reg = 0 THEN "TAIL_CALL" ELSE "CALL")
    ELSE IF is_sequential
    THEN "BRANCH"
    ELSE IF to_pc < from_pc
    THEN "BRANCH"
    ELSE (IF (to_pc - from_pc) <= 32 THEN "BRANCH" ELSE "DIRECT_JUMP")

(***************************************************************************)
(* handleBranch, one operator per case of its switch.  Each takes the      *)
(* engine members and returns them as the case leaves them.                *)
(***************************************************************************)
FuncAt(E, pc) == IF pc \in DOMAIN E.info THEN E.info[pc].func ELSE "unknown"
TypeAt(E, pc) == IF pc \in DOMAIN E.info THEN E.info[pc].func_type ELSE "NORMAL"

\* NewFrame whose snapshot counts the self events of the callee's first
\* instruction once more
NewFrame_SelfAhead(E, from_pc, from_func, to_pc, tail, fall) ==
  [caller_pc |-> from_pc, callee_pc |-> to_pc,
   caller_func |-> from_func,
   callee_func |-> IF to_pc \in DOMAIN E.info THEN E.info[to_pc].func
                   ELSE "unknown",
   events_at_entry |->
     [i \in 0 .. (MAX_EVENTS - 1) |->
        E.accumulated_events[i]
          + (IF to_pc \in DOMAIN E.info THEN E.info[to_pc].event[i] ELSE 0)],
   is_tail_call |-> tail, is_fall_through |-> fall]

NewFrame(E, from_pc, from_func, to_pc, tail, fall) ==
  [caller_pc |-> from_pc, callee_pc |-> to_pc,
   caller_func |-> from_func, callee_func |-> FuncAt(E, to_pc),
   events_at_entry |-> E.accumulated_events,
   is_tail_call |-> tail, is_fall_through |-> fall]

IncCount(cs, key) ==
  Put(cs, key, [At(cs, key, NewCallTargetInfo) EXCEPT !.count = @ + 1])

\* HandleCall without the substitution of the real caller: a call out of a
\* save helper is attributed to the helper's own PC
HandleCall_FromHelperPC(E, from_pc, to_pc) ==
  [E EXCEPT
     !.call_stack =
        Append(@, NewFrame(E, from_pc, FuncAt(E, from_pc), to_pc, FALSE, FALSE)),
     !.calls = IncCount(@, <<from_pc, to_pc>>)]

\* case BranchType::CALL
HandleCall(E, from_pc, to_pc) ==
  LET from_type == TypeAt(E, from_pc)
      to_type == TypeAt(E, to_pc)
      substitute == isCompilerHelper(from_type) /\ isSaveHelper(from_type)
                      /\ E.real_caller_func # ""
      ignored == isCompilerHelper(from_type) /\ ~substitute
      caller_pc == IF substitute THEN E.real_caller_pc ELSE from_pc
      caller_func == IF substitute THEN E.real_caller_func ELSE FuncAt(E, from_pc)
      rc_pc == IF isSaveHelper(to_type) THEN caller_pc
               ELSE IF substitute THEN 0 ELSE E.real_caller_pc
      rc_func == IF isSaveHelper(to_type) THEN caller_func
                 ELSE IF substitute THEN "" ELSE E.real_caller_func
  IN
  IF ignored THEN E
  ELSE [E EXCEPT
          !.real_caller_pc = rc_pc,
          !.real_caller_func = rc_func,
          !.call_stack =
             Append(@, NewFrame(E, caller_pc, caller_func, to_pc, FALSE, FALSE)),
          !.calls = IncCount(@, <<caller_pc, to_pc>>)]

\* case BranchType::TAIL_CALL
HandleTailCall(E, from_pc, to_pc) ==
  IF isCompilerHelper(TypeAt(E, from_pc)) THEN E
  ELSE [E EXCEPT
          !.calls = IncCount(@, <<from_pc, to_pc>>),
          !.call_stack =
             IF @ # << >>
             THEN Append(@, NewFrame(E, from_pc, FuncAt(E, from_pc), to_pc,
                                     TRUE, FALSE))
             ELSE @]

\* HandleFallThrough that flags the frame but not the edge
HandleFallThrough_EdgeNotFlagged(E, from_pc, to_pc) ==
  [E EXCEPT
     !.calls = IncCount(@, <<from_pc, to_pc>>),
     !.call_stack =
        Append(@, NewFrame(E, from_pc, FuncAt(E, from_pc), to_pc, FALSE, TRUE))]

\* case BranchType::FALL_THROUGH
HandleFallThrough(E, from_pc, to_pc) ==
  [E EXCEPT
     !.calls =
        Put(@, <<from_pc, to_pc>>,
            [At(@, <<from_pc, to_pc>>, NewCallTargetInfo) EXCEPT
               !.count = @ + 1, !.is_fall_through = TRUE]),
     !.call_stack =
        Append(@, NewFrame(E, from_pc, FuncAt(E, from_pc), to_pc, FALSE, TRUE))]

\* AddInclusive that adds the running totals, not what was recorded since the
\* frame was pushed
AddInclusive_FromZero(cs, entry, acc) ==
  LET key == <<entry.caller_pc, entry.callee_pc>> IN
  Put(cs, key,
      [At(cs, key, NewCallTargetInfo) EXCEPT
         !.inclusive_events = [i \in EventIdx |-> @[i] + acc[i]]])

\* inclusive_events[i] += accumulated_events[i] - entry.events_at_entry[i]
AddInclusive(cs, entry, acc) ==
  LET key == <<entry.caller_pc, entry.callee_pc>> IN
  Put(cs, key,
      [At(cs, key, NewCallTargetInfo) EXCEPT
         !.inclusive_events =
            [i \in EventIdx |-> @[i] + (acc[i] - entry.events_at_entry[i])]])

\* HandleReturn that credits the edge of the top frame and leaves it on the stack
HandleReturn_NoPop(E) ==
  IF E.call_stack = << >> THEN E
  ELSE [E EXCEPT
          !.calls = AddInclusive(@, Top(E.call_stack), E.accumulated_events)]

\* HandleReturn that pops the top frame and never closes a tail chain
HandleReturn_SinglePop(E) ==
  IF E.call_stack = << >> THEN E
  ELSE [E EXCEPT
          !.calls = AddInclusive(@, Top(E.call_stack), E.accumulated_events),
          !.call_stack = Pop(@)]

\* HandleReturn without the test for an empty stack: it credits an edge of a
\* frame that is not there
HandleReturn_NoEmptyTest(E) ==
  LET entry == IF E.call_stack = << >>
               THEN [caller_pc |-> 0, callee_pc |-> 0,
                     events_at_entry |-> ZeroEvents, is_tail_call |-> FALSE]
               ELSE Top(E.call_stack)
      calls1 == AddInclusive(E.calls, entry, E.accumulated_events)
      stack1 == IF E.call_stack = << >> THEN << >> ELSE Pop(E.call_stack)
  IN
  IF entry.is_tail_call /\ stack1 # << >>
  THEN [E EXCEPT
          !.calls = AddInclusive(calls1, Top(stack1), E.accumulated_events),
          !.call_stack = Pop(stack1)]
  ELSE [E EXCEPT !.calls = calls1, !.call_stack = stack1]

\* case BranchType::RETURN
HandleReturn(E) ==
  IF E.call_stack = << >> THEN E
  ELSE
    LET entry == Top(E.call_stack)
        calls1 == AddInclusive(E.calls, entry, E.accumulated_events)
        stack1 == Pop(E.call_stack)
    IN
    IF entry.is_tail_call /\ stack1 # << >>
    THEN [E EXCEPT
            !.calls = AddInclusive(calls1, Top(stack1), E.accumulated_events),
            !.call_stack = Pop(stack1)]
    ELSE [E EXCEPT !.calls = calls1, !.call_stack = stack1]

\* UpdateBranchInfo that counts total_executed on the taken path only
UpdateBranchInfo_TotalOnTaken(branch, to_pc, is_sequential) ==
  IF is_sequential
  THEN [branch EXCEPT !.fallthrough_target = to_pc,
                      !.fallthrough_count = @ + 1]
  ELSE [branch EXCEPT !.total_executed = @ + 1,
                      !.taken_target = to_pc,
                      !.taken_count = @ + 1]

\* UpdateBranchInfo that keeps the first target seen on each side
UpdateBranchInfo_FirstTarget(branch, to_pc, is_sequential) ==
  IF is_sequential
  THEN [branch EXCEPT !.total_executed = @ + 1,
                      !.fallthrough_target =
                         IF branch.fallthrough_count = 0 THEN to_pc ELSE @,
                      !.fallthrough_count = @ + 1]
  ELSE [branch EXCEPT !.total_executed = @ + 1,
                      !.taken_target =
                         IF branch.taken_count = 0 THEN to_pc ELSE @,
                      !.taken_count = @ + 1]

\* the update of the branch site in case BranchType::BRANCH
UpdateBranchInfo(branch, to_pc, is_sequential) ==
  IF is_sequential
  THEN [branch EXCEPT !.total_executed = @ + 1,
                      !.fallthrough_target = to_pc,
                      !.fallthrough_count = @ + 1]
  ELSE [branch EXCEPT !.total_executed = @ + 1,
                      !.taken_target = to_pc,
                      !.taken_count = @ + 1]

Min(x, y) == IF x < y THEN x ELSE y

\* the misprediction test of a predictor that needs a strict minority
Mispredicted_StrictMinority(branch) ==
  /\ branch.taken_count > 0
  /\ branch.fallthrough_count > 0
  /\ branch.taken_count # branch.fallthrough_count

\* the minority-path misprediction test
Mispredicted(branch) ==
  /\ branch.taken_count > 0
  /\ branch.fallthrough_count > 0
  /\ LET minority == Min(branch.taken_count, branch.fallthrough_count) IN
       /\ branch.total_executed > 1
       /\ (minority = branch.taken_count \/ minority = branch.fallthrough_count)

AddEvent(inf, pc, idx, n) ==
  Put(inf, pc, [At(inf, pc, NewPCInfo) EXCEPT !.event[idx] = @ + n])

\* HandleCondBranch that updates the site and leaves the Bc self event alone
HandleCondBranch_NoBc(E, from_pc, to_pc, is_sequential) ==
  IF ~E.collect_jumps THEN E
  ELSE
    LET branch == IF is_sequential
                  THEN [At(E.branches, from_pc, NewBranchInfo) EXCEPT
                          !.total_executed = @ + 1,
                          !.fallthrough_target = to_pc,
                          !.fallthrough_count = @ + 1]
                  ELSE [At(E.branches, from_pc, NewBranchInfo) EXCEPT
                          !.total_executed = @ + 1,
                          !.taken_target = to_pc,
                          !.taken_count = @ + 1]
    IN [E EXCEPT !.branches = Put(@, from_pc, branch)]

\* case BranchType::BRANCH
HandleCondBranch(E, from_pc, to_pc, is_sequential) ==
  IF ~E.collect_jumps THEN E
  ELSE
    LET branch == UpdateBranchInfo(At(E.branches, from_pc, NewBranchInfo),
                                   to_pc, is_sequential)
        info1 == AddEvent(E.info, from_pc, EVENT_BC, 1)
        info2 == IF Mispredicted(branch)
                 THEN AddEvent(info1, from_pc, EVENT_BCM, 1) ELSE info1
    IN [E EXCEPT !.branches = Put(@, from_pc, branch), !.info = info2]

\* HandleJump that counts every jump as an indirect one
HandleJump_AllIndirect(E, from_pc, to_pc, type) ==
  IF isCompilerHelper(TypeAt(E, from_pc)) \/ ~E.collect_jumps THEN E
  ELSE
    LET jumps1 == Put(E.jumps, <<from_pc, to_pc>>,
                      At(E.jumps, <<from_pc, to_pc>>, 0) + 1)
        targets == {k \in DOMAIN jumps1 : k[1] = from_pc}
        info1 == AddEvent(E.info, from_pc, EVENT_BI, 1)
        info2 == IF Cardinality(targets) > 1
                 THEN AddEvent(info1, from_pc, EVENT_BIM, 1) ELSE info1
    IN [E EXCEPT !.jumps = jumps1, !.info = info2]

\* case BranchType::DIRECT_JUMP: case BranchType::INDIRECT_JUMP
HandleJump(E, from_pc, to_pc, type) ==
  IF isCompilerHelper(TypeAt(E, from_pc)) \/ ~E.collect_jumps THEN E
  ELSE
    LET jumps1 == Put(E.jumps, <<from_pc, to_pc>>,
                      At(E.jumps, <<from_pc, to_pc>>, 0) + 1)
        targets == {k \in DOMAIN jumps1 : k[1] = from_pc}
        info1 == IF type = "INDIRECT_JUMP"
                 THEN AddEvent(E.info, from_pc, EVENT_BI, 1) ELSE E.info
        info2 == IF type = "INDIRECT_JUMP" /\ Cardinality(targets) > 1
                 THEN AddEvent(info1, from_pc, EVENT_BIM, 1) ELSE info1
    IN [E EXCEPT !.jumps = jumps1, !.info = info2]

handleBranch(E, from_pc, to_pc, type, is_sequential) ==
  CASE type = "NONE" -> E
    [] type = "CALL" -> HandleCall(E, from_pc, to_pc)
    [] type = "TAIL_CALL" -> HandleTailCall(E, from_pc, to_pc)
    [] type = "FALL_THROUGH" -> HandleFallThrough(E, from_pc, to_pc)
    [] type = "RETURN" -> HandleReturn(E)
    [] type = "BRANCH" -> HandleCondBranch(E, from_pc, to_pc, is_sequential)
    [] type \in {"DIRECT_JUMP", "INDIRECT_JUMP"} ->
         HandleJump(E, from_pc, to_pc, type)

(***************************************************************************)
(* The host simulator: programs (objdump data) and traces.                 *)
(* A scenario is a program the host loads, the trace it then streams, and  *)
(* the instructions it may go on to retire after that trace.               *)
(***************************************************************************)
MaxFree == 3

\* one element of the vector given to loadObjdumpData
L(pc, func, assembly) ==
  [pc |-> pc, func |-> func, assembly |-> assembly, file |-> "prog.c",
   line |-> pc % 100]

\* one onInstruction call
R(pc, event_type, count, dest_reg, is_branch) ==
  [pc |-> pc, event_type |-> event_type, count |-> count,
   dest_reg |-> dest_reg, is_branch |-> is_branch]

\* hints of an instruction that cannot alter control flow, of a call through
\* a link register, and of a jump that links to x0
Plain == [dest_reg |-> -1, is_branch |-> FALSE]
Linking == [dest_reg |-> 1, is_branch |-> TRUE]
NoLink == [dest_reg |-> 0, is_branch |-> TRUE]
Hints == {Plain, Linking, NoLink}

OneIr == {[event_type |-> EVENT_IR, count |-> 1]}
\* an event index one past the last slot of the event arrays
IrOrPastEnd == {[event_type |-> EVENT_IR, count |-> 1],
                [event_type |-> MAX_EVENTS, count |-> 1]}
IrOrBc == {[event_type |-> EVENT_IR, count |-> 1],
           [event_type |-> EVENT_BC, count |-> 1]}

\* the count 2^64 - 2
AlmostAll == 0 - 2

\* main 0x1000..0x100C, f 0x2000..0x2004
ProgCall ==
  <<L(4096, "main", "addi"), L(4100, "main", "jal"), L(4104, "main", "addi"),
    L(4108, "main", "ret"), L(8192, "f", "addi"), L(8196, "f", "ret")>>

\* main 0x1000..0x1008, f 0x2000..0x2008, g 0x3000..0x3004
ProgTail ==
  <<L(4096, "main", "addi"), L(4100, "main", "jal"), L(4104, "main", "addi"),
    L(8192, "f", "addi"), L(8196, "f", "j"), L(8200, "f", "ret"),
    L(12288, "g", "addi"), L(12292, "g", "ret")>>

\* loop 0x5000..0x500C
ProgLoop ==
  <<L(20480, "loop", "addi"), L(20484, "loop", "addi"),
    L(20488, "loop", "addi"), L(20492, "loop", "bne")>>

\* main 0x1000..0x1004, __riscv_save_0 0x7000..0x7004,
\* __riscv_restore_0 0x7100..0x7104, user_fn 0x8000
ProgHelper ==
  <<L(4096, "main", "addi"), L(4100, "main", "jal"),
    L(28672, "__riscv_save_0", "addi"), L(28676, "__riscv_save_0", "jal"),
    L(28928, "__riscv_restore_0", "addi"), L(28932, "__riscv_restore_0", "ret"),
    L(32768, "user_fn", "addi")>>

\* the helper program with the caller at 0x4000 in a function without a name
ProgAnon ==
  <<L(16384, "", "jal"),
    L(28672, "__riscv_save_0", "addi"), L(28676, "__riscv_save_0", "jal"),
    L(32768, "user_fn", "addi")>>

\* a 0x6000..0x6004, b 0x6008
ProgFall ==
  <<L(24576, "a", "addi"), L(24580, "a", "addi"), L(24584, "b", "addi")>>

\* main 0x1000..0x1004, f 0x1008 right behind it, g 0x3000
ProgAdjacent ==
  <<L(4096, "main", "jal"), L(4100, "main", "addi"), L(4104, "f", "addi"),
    L(12288, "g", "ret")>>

\* main 0x1000 and, far behind it, a compressed instruction at 0x1040 and its
\* successor 0x1042; a function without a name at 0x4000; a function whose
\* name is a proper prefix of the save prefix at 0x4004; nothing at 0x9999
ProgMisc ==
  <<L(4096, "main", "j"), L(4160, "main", "c.addi"), L(4162, "main", "addi"),
    L(16384, "", "addi"), L(16388, "__riscv_sav", "addi")>>

\* main 0x1000..0x1008, f 0x2000..0x200C with a call of f at 0x2004
ProgRec ==
  <<L(4096, "main", "addi"), L(4100, "main", "jal"), L(4104, "main", "addi"),
    L(8192, "f", "addi"), L(8196, "f", "jal"), L(8200, "f", "addi"),
    L(8204, "f", "ret")>>

\* main 0x1000, 0x1020 (32 bytes on) and 0x1024 (36 bytes on)
ProgJump ==
  <<L(4096, "main", "j"), L(4128, "main", "addi"), L(4132, "main", "addi")>>

\* ProgTail and h 0x4000..0x4004
ProgChain ==
  ProgTail \o <<L(16384, "h", "addi"), L(16388, "h", "ret")>>

\* reset 0x0..0x4 at the bottom of the address space, main 0x1000..0x1008
ProgReset ==
  <<L(0, "reset", "addi"), L(4, "reset", "ret"), L(4096, "main", "addi"),
    L(4100, "main", "jal"), L(4104, "main", "addi")>>

LoopBody(cost) ==
  <<R(20480, EVENT_IR, cost, -1, FALSE), R(20484, EVENT_IR, cost, -1, FALSE),
    R(20488, EVENT_IR, cost, -1, FALSE), R(20492, EVENT_IR, cost, -1, TRUE)>>

LoopTrace ==
  LoopBody(1) \o LoopBody(1) \o LoopBody(1) \o LoopBody(1)
    \o <<R(20496, EVENT_IR, 1, -1, FALSE)>>

Scenario(name) ==
  CASE name = "plain_call" ->
         [program |-> ProgCall,
          trace |-> <<R(4096, EVENT_IR, 1, -1, FALSE), R(4100, EVENT_IR, 1, 1, TRUE),
                      R(8192, EVENT_IR, 1, -1, FALSE), R(8196, EVENT_IR, 1, -1, TRUE),
                      R(4104, EVENT_IR, 1, -1, FALSE)>>,
          pcs |-> {4100, 8192, 4108}, costs |-> OneIr, opts |-> FALSE]
    [] name = "call_costs" ->
         [program |-> ProgCall,
          trace |-> <<R(4096, EVENT_IR, 1, -1, FALSE), R(4100, EVENT_IR, 1, 1, TRUE),
                      R(8192, EVENT_IR, 5, -1, FALSE), R(8196, EVENT_IR, 1, -1, TRUE),
                      R(4104, EVENT_IR, 7, -1, FALSE)>>,
          pcs |-> {}, costs |-> OneIr, opts |-> FALSE]
    [] name = "tail_call" ->
         [program |-> ProgTail,
          trace |-> <<R(4100, EVENT_IR, 1, 1, TRUE), R(8192, EVENT_IR, 1, -1, FALSE),
                      R(8196, EVENT_IR, 1, 0, TRUE), R(12288, EVENT_IR, 1, -1, FALSE),
                      R(12292, EVENT_IR, 1, -1, TRUE), R(4104, EVENT_IR, 1, -1, FALSE)>>,
          pcs |-> {4104, 8200, 12288}, costs |-> OneIr, opts |-> FALSE]
    [] name = "recursion" ->
         [program |-> ProgTail,
          trace |-> <<R(4100, EVENT_IR, 1, 1, TRUE), R(8196, EVENT_IR, 1, 1, TRUE),
                      R(12292, EVENT_IR, 1, 1, TRUE), R(4100, EVENT_IR, 1, 1, TRUE),
                      R(8196, EVENT_IR, 1, 1, TRUE), R(4104, EVENT_IR, 3, 1, TRUE),
                      R(12292, EVENT_IR, 1, 1, TRUE), R(8200, EVENT_IR, 1, 1, TRUE),
                      R(4104, EVENT_IR, 1, -1, FALSE)>>,
          pcs |-> {}, costs |-> OneIr, opts |-> FALSE]
    [] name = "self_recursion" ->
         [program |-> ProgRec,
          trace |-> <<R(4100, EVENT_IR, 1, 1, TRUE), R(8192, EVENT_IR, 1, -1, FALSE),
                      R(8196, EVENT_IR, 1, 1, TRUE), R(8192, EVENT_IR, 1, -1, FALSE),
                      R(8204, EVENT_IR, 1, -1, TRUE), R(8200, EVENT_IR, 1, -1, FALSE),
                      R(8204, EVENT_IR, 1, -1, TRUE), R(4104, EVENT_IR, 1, -1, FALSE)>>,
          pcs |-> {}, costs |-> OneIr, opts |-> FALSE]
    [] name = "loop" ->
         [program |-> ProgLoop, trace |-> LoopTrace,
          pcs |-> {20480, 20492, 20496}, costs |-> OneIr, opts |-> FALSE]
    [] name = "loop_exit_loaded" ->
         [program |-> Append(ProgLoop, L(20496, "loop", "ret")),
          trace |-> LoopTrace,
          pcs |-> {20480, 20492, 20496}, costs |-> OneIr, opts |-> FALSE]
    [] name = "save_helper" ->
         [program |-> ProgHelper,
          trace |-> <<R(4100, EVENT_IR, 1, 1, TRUE), R(28672, EVENT_IR, 1, -1, FALSE),
                      R(28676, EVENT_IR, 1, 1, TRUE), R(32768, EVENT_IR, 1, -1, FALSE)>>,
          pcs |-> {4100, 28928, 32768}, costs |-> OneIr, opts |-> FALSE]
    [] name = "anon_caller" ->
         [program |-> ProgAnon,
          trace |-> <<R(16384, EVENT_IR, 1, 1, TRUE), R(28672, EVENT_IR, 1, -1, FALSE),
                      R(28676, EVENT_IR, 1, 1, TRUE), R(32768, EVENT_IR, 1, -1, FALSE)>>,
          pcs |-> {}, costs |-> OneIr, opts |-> FALSE]
    [] name = "fall_through" ->
         [program |-> ProgFall,
          trace |-> <<R(24576, EVENT_IR, 1, -1, FALSE), R(24580, EVENT_IR, 1, -1, FALSE),
                      R(24584, EVENT_IR, 1, -1, FALSE)>>,
          pcs |-> {24576, 24580, 24584}, costs |-> OneIr, opts |-> FALSE]
    [] name = "any_calls" ->
         [program |-> ProgAdjacent, trace |-> << >>,
          pcs |-> {4096, 4100, 4104, 12288}, costs |-> OneIr, opts |-> TRUE]
    [] name = "any_helpers" ->
         [program |-> ProgHelper, trace |-> << >>,
          pcs |-> {4100, 28672, 28928, 28932, 32768}, costs |-> OneIr,
          opts |-> FALSE]
    [] name = "any_misc" ->
         [program |-> ProgMisc, trace |-> << >>,
          pcs |-> {4096, 4160, 4162, 16384, 16388, 39321}, costs |-> OneIr,
          opts |-> FALSE]
    [] name = "tail_return" ->
         [program |-> ProgTail,
          trace |-> <<R(4100, EVENT_IR, 1, 1, TRUE), R(8192, EVENT_IR, 1, -1, FALSE),
                      R(8196, EVENT_IR, 1, 0, TRUE), R(12288, EVENT_IR, 1, -1, FALSE),
                      R(12292, EVENT_IR, 1, -1, TRUE), R(8200, EVENT_IR, 1, -1, FALSE)>>,
          pcs |-> {}, costs |-> OneIr, opts |-> FALSE]
    [] name = "tail_chain" ->
         [program |-> ProgChain,
          trace |-> <<R(4100, EVENT_IR, 1, 1, TRUE), R(8192, EVENT_IR, 1, -1, FALSE),
                      R(8196, EVENT_IR, 1, 0, TRUE), R(12288, EVENT_IR, 1, -1, FALSE),
                      R(12292, EVENT_IR, 1, 0, TRUE), R(16384, EVENT_IR, 1, -1, FALSE),
                      R(16388, EVENT_IR, 1, -1, TRUE), R(12292, EVENT_IR, 1, -1, TRUE)>>,
          pcs |-> {}, costs |-> OneIr, opts |-> FALSE]
    [] name = "same_edge" ->
         [program |-> ProgReset,
          trace |-> <<R(4100, EVENT_IR, 1, 1, TRUE), R(0, EVENT_IR, 1, -1, FALSE),
                      R(4100, EVENT_IR, 1, 0, TRUE), R(0, EVENT_IR, 1, -1, FALSE),
                      R(4, EVENT_IR, 1, -1, TRUE), R(4104, EVENT_IR, 1, -1, FALSE)>>,
          pcs |-> {}, costs |-> OneIr, opts |-> FALSE]
    [] name = "any_jumps" ->
         [program |-> ProgJump, trace |-> << >>,
          pcs |-> {4096, 4128, 4132}, costs |-> OneIr, opts |-> FALSE]
    [] name = "jump_options" ->
         [program |-> ProgJump,
          trace |-> <<R(4096, EVENT_IR, 1, 0, TRUE), R(4132, EVENT_IR, 1, -1, FALSE)>>,
          pcs |-> {}, costs |-> OneIr, opts |-> TRUE]
    [] name = "host_bi" ->
         [program |-> ProgJump \o <<L(4136, "main", "addi")>>,
          trace |-> <<R(4096, EVENT_BI, 1, 0, TRUE), R(4132, EVENT_BIM, 1, 0, TRUE),
                      R(4096, EVENT_BI, 2, 0, TRUE), R(4136, EVENT_IR, 1, -1, FALSE)>>,
          pcs |-> {}, costs |-> OneIr, opts |-> FALSE]
    [] name = "any_events" ->
         [program |-> ProgLoop, trace |-> << >>,
          pcs |-> {20488, 20492}, costs |-> IrOrBc, opts |-> TRUE]

    [] name = "wrap" ->
         [program |-> ProgCall,
          trace |-> <<R(4100, EVENT_IR, 1, 1, TRUE),
                      R(8192, EVENT_IR, AlmostAll, -1, FALSE),
                      R(8196, EVENT_IR, 1, -1, TRUE)>>,
          pcs |-> {}, costs |-> OneIr, opts |-> FALSE]
    [] name = "unknown_pc" ->
         [program |-> << >>,
          trace |-> <<R(39321, EVENT_IR, 5, -1, FALSE)>>,
          pcs |-> {39321, 39325}, costs |-> OneIr, opts |-> FALSE]
    [] name = "any_index" ->
         [program |-> ProgLoop, trace |-> << >>,
          pcs |-> {20488, 20492}, costs |-> IrOrPastEnd, opts |-> FALSE]

ScenarioNames ==
  {"plain_call", "call_costs", "tail_call", "recursion", "self_recursion", "loop",
   "loop_exit_loaded", "save_helper", "fall_through", "any_calls",
   "any_helpers", "any_misc", "any_jumps", "tail_return", "tail_chain",
   "same_edge", "any_events", "any_index", "unknown_pc",
   "wrap", "anon_caller", "jump_options", "host_bi"}

\* the records the host may issue next
HostInputs ==
  IF script # << >> THEN {Head(script)}
  ELSE IF nfree < MaxFree
  THEN {R(pc, c.event_type, c.count, h.dest_reg, h.is_branch) :
          pc \in Scenario(scenario).pcs, c \in Scenario(scenario).costs,
          h \in Hints}
  ELSE {}

(***************************************************************************)
(* Operations                                                              *)
(***************************************************************************)
\* event_names as the constructor sets it
DefaultEventNames == <<"Ir", "Cycle", "Bc", "Bcm", "Bi", "Bim">>

\* the output file before writeOutput has opened it
NoFile == [written |-> FALSE]

(***************************************************************************)
(* RegisterArray<N> and RegisterAccessor (src/registerAccessor.hpp), with   *)
(* N = 10 as the example's main instantiates it.  reg_ is a function on     *)
(* 0 .. N-1 of 16-bit values.                                               *)
(***************************************************************************)
N == 10
REGISTER_BYTE_WIDTH == 2
ALIGNMENT_BYTES == 2
SUCCESS == 0
ERROR_INVALID_ADDRESS == 0 - 1
ERROR_MISALIGNED == 0 - 3

\* enum class RegAddr : size_t
ABC == 4096
AAA == 4100
BBB == 4104
CCC == 4108
RegAddr == {ABC, AAA, BBB, CCC}

addr_to_index(addr) == addr \div REGISTER_BYTE_WIDTH

\* the 16-bit values and the byte addresses the program passes: the first
\* and the last register, a misaligned address, the first address behind the
\* array, and the address the example uses
RegValues == {4660, 65535}
ByteAddrs == {0, 2, 3, 18, 20, 4096}
MaxRegCalls == 3

\* x | (1U << BitPos), kept to 16 bits
OrBit(x, BitPos) ==
  (IF (x \div (2 ^ BitPos)) % 2 = 1 THEN x ELSE x + 2 ^ BitPos) % 65536

\* (x >> LowBit) & mask for the field HighBit .. LowBit
Field(x, HighBit, LowBit) ==
  (x \div (2 ^ LowBit)) % (2 ^ (HighBit - LowBit + 1))

\* the ways an access outside reg_ comes out: the library's bounds assertion
\* aborts the program, or the access goes to the memory behind the object
Faults == {"aborted", "outside"}

\* RegisterArray() : reg_{}
RegisterArray_Init ==
  /\ reg_ = [i \in 0 .. (N - 1) |-> 0]
  /\ reg_result = SUCCESS
  /\ reg_index = 0 - 1
  /\ reg_fault = "none"
  /\ reg_calls = 0

\* reg_[index] = value through std::array::operator[], which checks nothing
Subscript_Store(index, value) ==
  /\ reg_index' = index
  /\ IF index < N
     THEN /\ reg_' = [reg_ EXCEPT ![index] = value]
          /\ reg_fault' = "none"
     ELSE /\ reg_' = reg_
          /\ reg_fault' \in Faults

\* the value of reg_[index]; outside reg_ it is whatever the memory holds
Subscript_Load(index) ==
  /\ reg_index' = index
  /\ reg_' = reg_
  /\ IF index < N
     THEN /\ reg_result' = reg_[index]
          /\ reg_fault' = "none"
     ELSE /\ reg_result' \in (RegValues \cup {0})
          /\ reg_fault' \in Faults

\* one call by the program; nothing is followed behind an access outside reg_
RegisterCall ==
  /\ reg_calls < MaxRegCalls
  /\ reg_fault = "none"
  /\ reg_calls' = reg_calls + 1
  /\ UNCHANGED <<engine_vars, out, host_vars, history_vars, tail_call_chain>>

\* void write(RegAddr addr, uint16_t value)
Register_write ==
  /\ RegisterCall
  /\ \E addr \in RegAddr, value \in RegValues :
       Subscript_Store(addr_to_index(addr), value)
  /\ reg_result' = reg_result

\* uint16_t read(RegAddr addr) const
Register_read ==
  /\ RegisterCall
  /\ \E addr \in RegAddr : Subscript_Load(addr_to_index(addr))

\* reg(addr) = value
Accessor_assign ==
  /\ RegisterCall
  /\ \E addr \in RegAddr, value \in RegValues :
       Subscript_Store(addr_to_index(addr), value)
  /\ reg_result' = reg_result

\* reg(addr).set_bit<BitPos>()
Accessor_set_bit ==
  /\ RegisterCall
  /\ \E addr \in RegAddr, BitPos \in {0, 5, 15} :
       LET index == addr_to_index(addr) IN
       IF index < N
       THEN Subscript_Store(index, OrBit(reg_[index], BitPos))
       ELSE /\ reg_index' = index
            /\ reg_' = reg_
            /\ reg_fault' \in Faults
  /\ reg_result' = reg_result

\* reg(addr).bits<HighBit, LowBit>()
Accessor_bits ==
  /\ RegisterCall
  /\ \E addr \in RegAddr :
       LET index == addr_to_index(addr) IN
       /\ reg_index' = index
       /\ reg_' = reg_
       /\ IF index < N
          THEN /\ reg_result' = Field(reg_[index], 7, 4)
               /\ reg_fault' = "none"
          ELSE /\ reg_result' \in {Field(v, 7, 4) : v \in RegValues \cup {0}}
               /\ reg_fault' \in Faults

\* int write_word(size_t byte_addr, const uint16_t* value) with a valid pointer
write_word ==
  /\ RegisterCall
  /\ \E byte_addr \in ByteAddrs, value \in RegValues :
       IF byte_addr % ALIGNMENT_BYTES # 0
       THEN /\ reg_result' = ERROR_MISALIGNED
            /\ UNCHANGED <<reg_, reg_index, reg_fault>>
       ELSE IF byte_addr >= N * REGISTER_BYTE_WIDTH
       THEN /\ reg_result' = ERROR_INVALID_ADDRESS
            /\ UNCHANGED <<reg_, reg_index, reg_fault>>
       ELSE /\ Subscript_Store(byte_addr \div REGISTER_BYTE_WIDTH, value)
            /\ reg_result' = SUCCESS

\* uint16_t read_word_safe(size_t byte_addr, uint16_t default_value)
read_word_safe ==
  /\ RegisterCall
  /\ \E byte_addr \in ByteAddrs, default_value \in {57005} :
       IF byte_addr % ALIGNMENT_BYTES # 0 \/ byte_addr >= N * REGISTER_BYTE_WIDTH
       THEN /\ reg_result' = default_value
            /\ UNCHANGED <<reg_, reg_index, reg_fault>>
       ELSE Subscript_Load(byte_addr \div REGISTER_BYTE_WIDTH)

\* CallgrindGenerator(filename), then the host picks what it will run
Init ==
  /\ info = << >>
  /\ calls = << >>
  /\ jumps = << >>
  /\ branches = << >>
  /\ call_stack = << >>
  /\ last_pc = 0
  /\ last_dest_reg = -1
  /\ last_was_branch = FALSE
  /\ last_inst_size = 4
  /\ accumulated_events = ZeroEvents
  /\ last_func_name = ""
  /\ real_caller_pc = 0
  /\ real_caller_func = ""
  /\ collect_jumps = TRUE
  /\ dump_instr = TRUE
  /\ event_names = DefaultEventNames
  /\ num_events = 2
  /\ out = NoFile
  /\ scenario \in ScenarioNames
  /\ objdump = Scenario(scenario).program
  /\ script = Scenario(scenario).trace
  /\ nfree = 0
  /\ options_set = FALSE
  /\ steps = 0
  /\ last_type = "NOT_CLASSIFIED"
  /\ credited = << >>
  /\ window = << >>
  /\ prev_depth = 0
  /\ max_depth = 0
  /\ oob_write = FALSE
  /\ last_event = EVENT_IR
  /\ wraps = << >>
  /\ last_call = "none"
  /\ before = NoRecord
  /\ tail_call_chain = << >>
  /\ RegisterArray_Init

\* loadPCInfo: insert or overwrite, the event counters are kept
loadPCInfo(inf, pc, func, assembly, file, line) ==
  Put(inf, pc,
      [At(inf, pc, NewPCInfo) EXCEPT
         !.func = func, !.assembly = assembly, !.file = file, !.line = line,
         !.func_type = determineFunctionType(func)])

\* one iteration of SimulatorInterface::loadObjdumpData
LoadPCInfo ==
  /\ objdump # << >>
  /\ LET e == Head(objdump) IN
       info' = loadPCInfo(info, e.pc, e.func, e.assembly, e.file, e.line)
  /\ objdump' = Tail(objdump)
  /\ UNCHANGED <<calls, jumps, branches, call_stack, last_pc, last_dest_reg,
                 last_was_branch, last_inst_size, accumulated_events,
                 last_func_name, real_caller_pc, real_caller_func,
                 collect_jumps, dump_instr, event_names, num_events, out>>
  /\ UNCHANGED <<scenario, script, nfree, options_set>>
  /\ UNCHANGED history_vars
  /\ UNCHANGED <<tail_call_chain, register_vars>>

\* setOptions, called by the host before it streams the trace
SetOptions ==
  /\ Scenario(scenario).opts
  /\ objdump = << >>
  /\ steps = 0
  /\ ~options_set
  /\ out = NoFile
  /\ \E dump_instr_opt \in BOOLEAN, collect_jumps_opt \in BOOLEAN :
       /\ dump_instr' = dump_instr_opt
       /\ collect_jumps' = collect_jumps_opt
  /\ options_set' = TRUE
  /\ UNCHANGED <<info, calls, jumps, branches, call_stack, last_pc,
                 last_dest_reg, last_was_branch, last_inst_size,
                 accumulated_events, last_func_name, real_caller_pc,
                 real_caller_func, event_names, num_events, out>>
  /\ UNCHANGED <<scenario, objdump, script, nfree>>
  /\ UNCHANGED history_vars
  /\ UNCHANGED <<tail_call_chain, register_vars>>

\* SynthesizePCInfo that leaves the new entry as default-constructed
SynthesizePCInfo_Default(inf, pc) ==
  IF pc \in DOMAIN inf THEN inf ELSE Put(inf, pc, NewPCInfo)

\* the event names the host may configure (at most MAX_EVENTS of them)
EventNameChoices ==
  {<<"Ir">>, <<"Ir", "Cycle", "Bc", "Bcm">>, DefaultEventNames}

\* configureEvents, called by the host before it streams the trace
ConfigureEvents ==
  /\ Scenario(scenario).opts
  /\ objdump = << >>
  /\ steps = 0
  /\ num_events = 2
  /\ out = NoFile
  /\ \E names \in EventNameChoices :
       /\ event_names' = names
       /\ num_events' = Len(names)
  /\ UNCHANGED <<info, calls, jumps, branches, call_stack, last_pc,
                 last_dest_reg, last_was_branch, last_inst_size,
                 accumulated_events, last_func_name, real_caller_pc,
                 real_caller_func, collect_jumps, dump_instr, out>>
  /\ UNCHANGED host_vars
  /\ UNCHANGED history_vars
  /\ UNCHANGED <<tail_call_chain, register_vars>>

\* the synthetic entry recordExecution creates for a PC that has none
SynthesizePCInfo(inf, pc) ==
  IF pc \in DOMAIN inf THEN inf
  ELSE Put(inf, pc, [NewPCInfo EXCEPT !.func = "unknown", !.file = "unknown",
                                      !.line = 0, !.func_type = "NORMAL"])

\* recordExecution's test for handling the previous instruction
MustClassify(prev_pc, prev_was_branch, prev_func_name, current_func) ==
  /\ prev_pc # 0
  /\ LET function_changed == prev_func_name # "" /\ current_func # prev_func_name
     IN prev_was_branch \/ function_changed

\* the host's delta of one record, as an event array
Delta(event_type, count) ==
  [i \in EventIdx |-> IF i = event_type THEN count ELSE 0]

AddEvents(x, y) == [i \in EventIdx |-> x[i] + y[i]]

\* Credit that leaves the running totals alone
Credit_SelfOnly(E, pc, event_type, count) ==
  IF event_type \in EventIdx
  THEN {[E EXCEPT !.info = AddEvent(E.info, pc, event_type, count)]}
  ELSE {[E EXCEPT !.info[pc].func_type = t] : t \in FunctionType}

\* info[pc].event[event_type] += count; accumulated_events[event_type] += count;
\* the engine members as the two stores can leave them.  The index is not
\* checked: with event_type >= MAX_EVENTS both stores land behind the arrays.
\* event[MAX_EVENTS] is the storage of the entry's func_type, which can come
\* out as any function type (or as it was); the word behind
\* accumulated_events belongs to last_func_name, which recordExecution
\* assigns before it returns.
Credit(E, pc, event_type, count) ==
  IF event_type \in EventIdx
  THEN {[E EXCEPT !.info = AddEvent(E.info, pc, event_type, count),
                  !.accumulated_events[event_type] = @ + count]}
  ELSE {[E EXCEPT !.info[pc].func_type = t] : t \in FunctionType}

\* recordExecution from the two stores on
RecordFrom(E1, pc, event_type, count, dest_reg, is_branch_instruction) ==
  LET info0 == E1.info
      current_func == info0[pc].func
      classify == MustClassify(last_pc, last_was_branch, last_func_name,
                               current_func)
      is_sequential == (pc = last_pc + last_inst_size)
      branch_type == detectBranchType(E1, last_pc, pc, last_dest_reg, is_sequential)
      E2 == IF classify
            THEN handleBranch(E1, last_pc, pc, branch_type, is_sequential)
            ELSE E1
      d == Delta(event_type, count)
      n == Len(call_stack)
      n2 == Len(E2.call_stack)
  IN
  /\ info' = E2.info
  /\ calls' = E2.calls
  /\ jumps' = E2.jumps
  /\ branches' = E2.branches
  /\ call_stack' = E2.call_stack
  /\ accumulated_events' = E2.accumulated_events
  /\ real_caller_pc' = E2.real_caller_pc
  /\ real_caller_func' = E2.real_caller_func
  /\ last_pc' = pc
  /\ last_dest_reg' = dest_reg
  /\ last_was_branch' = is_branch_instruction
  /\ last_inst_size' = IF info0[pc].assembly = "" THEN 4
                       ELSE detectInstructionSize(info0[pc].assembly)
  /\ last_func_name' = current_func
  /\ UNCHANGED <<collect_jumps, dump_instr, event_names, num_events, out>>
  \* history
  /\ steps' = steps + 1
  /\ last_type' = IF classify THEN branch_type ELSE "NOT_CLASSIFIED"
  /\ credited' = Put(credited, pc, AddEvents(At(credited, pc, ZeroEvents), d))
  /\ window' = IF n2 > n
               THEN Append([k \in 1 .. n |-> AddEvents(window[k], d)], d)
               ELSE [k \in 1 .. n2 |-> AddEvents(window[k], d)]
  /\ prev_depth' = n
  /\ before' = LastState
  /\ max_depth' = IF n2 > max_depth THEN n2 ELSE max_depth
  /\ oob_write' = (oob_write \/ event_type \notin EventIdx)
  /\ last_event' = event_type
  /\ wraps' =
       LET w == [i \in EventIdx |->
                   i = event_type /\ AddCarries(accumulated_events[i], count)]
           old(k) == [i \in EventIdx |-> wraps[k][i] \/ w[i]]
       IN IF n2 > n
          THEN Append([k \in 1 .. n |-> old(k)], [i \in EventIdx |-> FALSE])
          ELSE [k \in 1 .. n2 |-> old(k)]

\* recordExecution
RecordExecution(pc, event_type, count, dest_reg, is_branch_instruction) ==
  \E E1 \in Credit([Engine EXCEPT !.info = SynthesizePCInfo(info, pc)],
                   pc, event_type, count) :
    /\ RecordFrom(E1, pc, event_type, count, dest_reg, is_branch_instruction)
    /\ last_call' = "recordExecution"
    /\ UNCHANGED <<tail_call_chain, register_vars>>

\* SimulatorInterface::onInstruction.  A run is followed up to the first store
\* outside an event array: from there on the process has no defined behaviour
\* (the build at hand aborts inside that record).
OnInstruction ==
  /\ objdump = << >>
  /\ ~oob_write
  /\ out = NoFile
  /\ \E in \in HostInputs :
       RecordExecution(in.pc, in.event_type, in.count, in.dest_reg, in.is_branch)
  /\ script' = IF script # << >> THEN Tail(script) ELSE script
  /\ nfree' = IF script # << >> THEN nfree ELSE nfree + 1
  /\ UNCHANGED <<scenario, objdump, options_set>>

RECURSIVE SortedPcs(_)
\* the keys of info after std::sort
SortedPcs(S) ==
  IF S = {} THEN << >>
  ELSE LET m == CHOOSE x \in S : \A y \in S : x <= y
       IN <<m>> \o SortedPcs(S \ {m})

\* HasEvents that looks at the Ir column only
HasEvents_IrOnly(pc_info) == pc_info.event[EVENT_IR] # 0

\* "Skip if no events": some of the MAX_EVENTS counters is not zero
HasEvents(pc_info) == \E i \in EventIdx : pc_info.event[i] # 0

\* the first n columns of an event array as they are printed on a line
Columns(ev, n) == [k \in 1 .. n |-> ev[k - 1]]

\* an optional part of a line: present (<<x>>) or absent (<< >>)
Opt(present, x) == IF present THEN <<x>> ELSE << >>

LineAt(pc) == IF pc \in DOMAIN info THEN info[pc].line ELSE 0

\* the cfn/cfl/calls blocks and the inclusive line of each edge out of pc
CallBlocks(pc) ==
  IF isCompilerHelper(info[pc].func_type) THEN {}
  ELSE {[cfn |-> FuncAt(Engine, k[2]),
         fall_through_mark |-> k[2] \in DOMAIN info /\ calls[k].is_fall_through,
         cfl |-> Opt(k[2] \in DOMAIN info, At(info, k[2], NewPCInfo).file),
         calls |-> calls[k].count,
         target |-> Opt(dump_instr, k[2]),
         target_line |-> LineAt(k[2]),
         position |-> Opt(dump_instr, pc),
         line |-> info[pc].line,
         inclusive |-> Columns(calls[k].inclusive_events, num_events)] :
          k \in {x \in DOMAIN calls : x[1] = pc}}

\* the jcnd lines of the branch site at pc: taken first, then fall-through
BranchLines(pc) ==
  IF ~collect_jumps \/ pc \notin DOMAIN branches THEN << >>
  ELSE LET branch == branches[pc] IN
       Opt(branch.taken_count # 0,
           [count |-> branch.taken_count, total |-> branch.total_executed,
            target |-> Opt(dump_instr, branch.taken_target),
            target_line |-> LineAt(branch.taken_target)])
       \o Opt(branch.fallthrough_count # 0,
              [count |-> branch.fallthrough_count,
               total |-> branch.total_executed,
               target |-> Opt(dump_instr, branch.fallthrough_target),
               target_line |-> LineAt(branch.fallthrough_target)])

\* the jump= lines of pc
JumpLines(pc) ==
  IF ~collect_jumps THEN {}
  ELSE {[target |-> Opt(dump_instr, k[2]), fn |-> FuncAt(Engine, k[2]),
         count |-> jumps[k]] : k \in {x \in DOMAIN jumps : x[1] = pc}}

RECURSIVE CostLines(_, _, _)
\* the loop "Write costs" over the sorted PCs
CostLines(pcs, current_func, current_file) ==
  IF pcs = << >> THEN << >>
  ELSE
    LET pc == Head(pcs)
        pc_info == info[pc]
    IN
    IF ~HasEvents(pc_info)
    THEN CostLines(Tail(pcs), current_func, current_file)
    ELSE <<[fn |-> Opt(pc_info.func # current_func, pc_info.func),
            fl |-> Opt(pc_info.file # current_file, pc_info.file),
            position |-> Opt(dump_instr, pc),
            line |-> pc_info.line,
            events |-> Columns(pc_info.event, num_events),
            assembly |-> Opt(dump_instr /\ pc_info.assembly # "",
                             pc_info.assembly),
            call_blocks |-> CallBlocks(pc),
            jcnd |-> BranchLines(pc),
            jump |-> JumpLines(pc)]>>
         \o CostLines(Tail(pcs), pc_info.func, pc_info.file)

RECURSIVE ColumnTotal(_, _)
\* totals[i] += pc_info.event[i] over all entries of info
ColumnTotal(S, i) ==
  IF S = {} THEN 0
  ELSE LET p == CHOOSE x \in S : TRUE
       IN info[p].event[i] + ColumnTotal(S \ {p}, i)

\* the file writeOutput writes, line by line.  Numbers stand for their
\* decimal (positions: hexadecimal) text.
writeOutput ==
  [written |-> TRUE,
   positions |-> Opt(dump_instr, "instr") \o <<"line">>,
   events |-> SubSeq(event_names, 1, Min(num_events, Len(event_names))),
   lines |-> CostLines(SortedPcs(DOMAIN info), "", ""),
   totals |-> [k \in 1 .. num_events |-> ColumnTotal(DOMAIN info, k - 1)]]

\* SimulatorInterface::finalize, the host's last call
Finalize ==
  /\ objdump = << >>
  /\ script = << >>
  /\ ~oob_write
  /\ out = NoFile
  /\ out' = writeOutput
  /\ UNCHANGED engine_vars
  /\ UNCHANGED host_vars
  /\ UNCHANGED history_vars
  /\ UNCHANGED <<tail_call_chain, register_vars>>

Next == LoadPCInfo \/ SetOptions \/ ConfigureEvents \/ OnInstruction \/ Finalize

Spec == Init /\ [][Next]_vars

(***************************************************************************)
(* The first draft of the class (src/test.cpp), which has the batch        *)
(* recording method recordExecutionMulti.  It keeps its state in members   *)
(* of the same names; its PCInfo has no func_type, its call and jump       *)
(* ledgers are maps from (from_pc, to_pc) to CallRecord and JumpRecord,    *)
(* and it has no branch ledger.                                            *)
(***************************************************************************)
Draft1 ==
  [info |-> info, calls |-> calls, jumps |-> jumps, call_stack |-> call_stack,
   tail_call_chain |-> tail_call_chain,
   accumulated_events |-> accumulated_events, collect_jumps |-> collect_jumps]

\* CallRecord() and JumpRecord(); the two PCs are the key
NewCallRecord == [count |-> 0, inclusive_events |-> ZeroEvents]
NewJumpRecord == [executed |-> 0, taken |-> 0]

Draft1_detectBranchType(D, from_pc, to_pc, dest_reg, is_sequential) ==
  IF is_sequential THEN "NONE"
  ELSE IF from_pc \notin DOMAIN D.info \/ to_pc \notin DOMAIN D.info
  THEN "UNCONDITIONAL_BRANCH"
  ELSE
    LET from_func == D.info[from_pc].func
        to_func == D.info[to_pc].func
    IN
    IF D.call_stack # << >>
         /\ Top(D.call_stack).caller_pc \in DOMAIN D.info
         /\ to_func = D.info[Top(D.call_stack).caller_pc].func
    THEN "RETURN"
    ELSE IF from_func # to_func
    THEN (IF dest_reg = 0 THEN "TAIL_CALL" ELSE "CALL")
    ELSE IF to_pc < from_pc
    THEN "CONDITIONAL_BRANCH"
    ELSE (IF (to_pc - from_pc) > 32 THEN "UNCONDITIONAL_BRANCH"
          ELSE "CONDITIONAL_BRANCH")

\* jump.executed++; jump.taken++
TakeJump(D, from_pc, to_pc) ==
  IF D.collect_jumps
  THEN Put(D.jumps, <<from_pc, to_pc>>,
           [At(D.jumps, <<from_pc, to_pc>>, NewJumpRecord) EXCEPT
              !.executed = @ + 1, !.taken = @ + 1])
  ELSE D.jumps

CountCall(cs, from_pc, to_pc) ==
  Put(cs, <<from_pc, to_pc>>,
      [At(cs, <<from_pc, to_pc>>, NewCallRecord) EXCEPT !.count = @ + 1])

\* inclusive_events[i] += cost[i] / share, for an edge that is in the ledger
AddShare(cs, key, cost, share) ==
  IF key \in DOMAIN cs
  THEN [cs EXCEPT ![key].inclusive_events =
          [i \in EventIdx |-> @[i] + (cost[i] \div share)]]
  ELSE cs

RECURSIVE AddChain(_, _, _, _)
\* the loop over tail_call_chain in case RETURN
AddChain(cs, chain, cost, share) ==
  IF chain = << >> THEN cs
  ELSE AddChain(AddShare(cs, Head(chain), cost, share), Tail(chain), cost, share)

Draft1_handleBranch(D, from_pc, to_pc, type) ==
  CASE type = "CALL" ->
         [D EXCEPT
            !.call_stack =
               Append(@, [caller_pc |-> from_pc, callee_pc |-> to_pc,
                          caller_func |-> D.info[from_pc].func,
                          callee_func |-> D.info[to_pc].func,
                          events_at_entry |-> D.accumulated_events,
                          is_tail_call |-> FALSE]),
            !.calls = CountCall(@, from_pc, to_pc),
            !.jumps = TakeJump(D, from_pc, to_pc)]
    [] type = "TAIL_CALL" ->
         IF D.call_stack = << >>
         THEN [D EXCEPT
                 !.tail_call_chain = Append(@, <<from_pc, to_pc>>),
                 !.jumps = TakeJump(D, from_pc, to_pc)]
         ELSE LET original_entry == Top(D.call_stack) IN
              [D EXCEPT
                 !.tail_call_chain = Append(@, <<from_pc, to_pc>>),
                 !.call_stack =
                    Append(Pop(@),
                           [caller_pc |-> original_entry.caller_pc,
                            callee_pc |-> to_pc,
                            caller_func |-> original_entry.caller_func,
                            callee_func |-> D.info[to_pc].func,
                            events_at_entry |-> original_entry.events_at_entry,
                            is_tail_call |-> TRUE]),
                 !.calls = CountCall(@, from_pc, to_pc),
                 !.jumps = TakeJump(D, from_pc, to_pc)]
    [] type = "RETURN" ->
         IF D.call_stack = << >> THEN D
         ELSE LET entry == Top(D.call_stack)
                  inclusive_cost ==
                    [i \in EventIdx |->
                       D.accumulated_events[i] - entry.events_at_entry[i]]
                  calls1 == AddShare(D.calls, <<entry.caller_pc, entry.callee_pc>>,
                                     inclusive_cost, 1)
                  chained == entry.is_tail_call /\ D.tail_call_chain # << >>
              IN [D EXCEPT
                    !.calls = IF chained
                              THEN AddChain(calls1, D.tail_call_chain,
                                            inclusive_cost,
                                            Len(D.tail_call_chain) + 1)
                              ELSE calls1,
                    !.tail_call_chain = IF chained THEN << >> ELSE @,
                    !.call_stack = Pop(@)]
    [] type \in {"CONDITIONAL_BRANCH", "UNCONDITIONAL_BRANCH"} ->
         IF ~D.collect_jumps THEN D
         ELSE LET jumps1 == TakeJump(D, from_pc, to_pc)
                  jump == jumps1[<<from_pc, to_pc>>]
                  info1 == IF type = "CONDITIONAL_BRANCH"
                           THEN AddEvent(D.info, from_pc, EVENT_BC, 1)
                           ELSE D.info
                  info2 == IF type = "CONDITIONAL_BRANCH"
                                /\ jump.taken <= jump.executed \div 2
                           THEN AddEvent(info1, from_pc, EVENT_BCM, 1)
                           ELSE info1
              IN [D EXCEPT !.jumps = jumps1, !.info = info2]
    [] type = "NONE" -> D

\* "Handle control flow" and the update of the last_* members, common to
\* both recording methods; D1 are the members after the events are credited.
\* The instruction size is looked up in the index as it was when the method
\* was entered (recordExecution) or as it is now (late_lookup).
Draft1_Finish(D1, pc, dest_reg, is_branch_instruction, late_lookup, d) ==
  LET classify == last_pc # 0 /\ last_was_branch
      is_sequential == (pc = last_pc + last_inst_size)
      branch_type == Draft1_detectBranchType(D1, last_pc, pc, last_dest_reg,
                                             is_sequential)
      D2 == IF classify /\ branch_type # "NONE"
            THEN Draft1_handleBranch(D1, last_pc, pc, branch_type)
            ELSE D1
      inf == IF late_lookup THEN D2.info ELSE info
  IN
  /\ info' = D2.info
  /\ calls' = D2.calls
  /\ jumps' = D2.jumps
  /\ call_stack' = D2.call_stack
  /\ tail_call_chain' = D2.tail_call_chain
  /\ UNCHANGED register_vars
  /\ accumulated_events' = D2.accumulated_events
  /\ last_pc' = pc
  /\ last_dest_reg' = dest_reg
  /\ last_was_branch' = is_branch_instruction
  /\ last_inst_size' = IF pc \in DOMAIN inf /\ inf[pc].assembly # ""
                        THEN detectInstructionSize(inf[pc].assembly) ELSE 4
  /\ UNCHANGED <<branches, last_func_name, real_caller_pc, real_caller_func,
                 collect_jumps, dump_instr, event_names, num_events, out>>
  \* history
  /\ steps' = steps + 1
  /\ last_type' = IF classify THEN branch_type ELSE "NOT_CLASSIFIED"
  /\ credited' = Put(credited, pc, AddEvents(At(credited, pc, ZeroEvents), d))
  /\ prev_depth' = Len(call_stack)
  /\ before' = LastState
  /\ max_depth' = IF Len(D2.call_stack) > max_depth THEN Len(D2.call_stack)
                   ELSE max_depth
  /\ UNCHANGED <<window, wraps, oob_write>>

\* recordExecution of the first draft
Draft1_recordExecution(pc, event_type, count, dest_reg, is_branch_instruction) ==
  LET found == pc \in DOMAIN info
      info0 == IF found THEN info
               ELSE Put(info, pc, [NewPCInfo EXCEPT !.func = "unknown",
                                                    !.file = "unknown",
                                                    !.line = 0])
      D1 == [Draft1 EXCEPT
               !.info = AddEvent(info0, pc, event_type, count),
               !.accumulated_events[event_type] = @ + count]
  IN
  \* `it` is the iterator of the lookup made before the entry was created
  /\ Draft1_Finish(D1, pc, dest_reg, is_branch_instruction, FALSE,
                   Delta(event_type, count))
  /\ last_event' = event_type
  /\ last_call' = "recordExecution"

\* what "Update all events" adds to event index i: events[i] if it is one of
\* the first event_count and the first MAX_EVENTS elements and not zero
MultiDelta(events, event_count) ==
  [i \in EventIdx |->
     IF i < event_count /\ i < MAX_EVENTS /\ events[i + 1] # 0
     THEN events[i + 1] ELSE 0]

\* recordExecutionMulti.  info[pc] is reached only through
\* info[pc].event[i] += events[i]: an unseen PC gets a default-constructed
\* entry, and only when one of the events credited is not zero.
recordExecutionMulti(pc, events, event_count, dest_reg, is_branch_instruction) ==
  LET d == MultiDelta(events, event_count)
      touched == \E i \in EventIdx : d[i] # 0
      D1 == [Draft1 EXCEPT
               !.info = IF touched
                        THEN Put(@, pc, [At(@, pc, NewPCInfo) EXCEPT
                                           !.event = AddEvents(@, d)])
                        ELSE @,
               !.accumulated_events = AddEvents(@, d)]
  IN
  /\ Draft1_Finish(D1, pc, dest_reg, is_branch_instruction, TRUE, d)
  /\ last_event' = last_event
  /\ last_call' = "recordExecutionMulti"

\* the host of the first draft: main and f loaded, 0x9999 not
Draft1_Pcs == {4100, 8192, 39321}
\* event vectors: two events, none, and eleven of which only the last is set
PastEnd == [k \in 1 .. (MAX_EVENTS + 1) |-> IF k = MAX_EVENTS + 1 THEN 1 ELSE 0]
Draft1_Events == {<<1, 2>>, <<0, 0>>, PastEnd}

Draft1_Init ==
  /\ info = << >>
  /\ calls = << >>
  /\ jumps = << >>
  /\ branches = << >>
  /\ call_stack = << >>
  /\ tail_call_chain = << >>
  /\ RegisterArray_Init
  /\ last_pc = 0
  /\ last_dest_reg = -1
  /\ last_was_branch = FALSE
  /\ last_inst_size = 4
  /\ accumulated_events = ZeroEvents
  /\ last_func_name = ""
  /\ real_caller_pc = 0
  /\ real_caller_func = ""
  /\ collect_jumps = TRUE
  /\ dump_instr = TRUE
  /\ event_names = DefaultEventNames
  /\ num_events = 2
  /\ out = NoFile
  /\ scenario = "first_draft"
  /\ objdump = ProgCall
  /\ script = << >>
  /\ nfree = 0
  /\ options_set = FALSE
  /\ steps = 0
  /\ last_type = "NOT_CLASSIFIED"
  /\ credited = << >>
  /\ window = << >>
  /\ prev_depth = 0
  /\ max_depth = 0
  /\ oob_write = FALSE
  /\ last_event = EVENT_IR
  /\ wraps = << >>
  /\ last_call = "none"
  /\ before = NoRecord

\* SimulatorInterface::onInstruction
Draft1_OnInstruction ==
  /\ objdump = << >>
  /\ nfree < MaxFree
  /\ \E pc \in Draft1_Pcs, h \in Hints :
       Draft1_recordExecution(pc, EVENT_IR, 1, h.dest_reg, h.is_branch)
  /\ nfree' = nfree + 1
  /\ UNCHANGED <<scenario, objdump, script, options_set>>

\* the host calls the batch method
OnInstructionMulti ==
  /\ objdump = << >>
  /\ nfree < MaxFree
  /\ \E pc \in Draft1_Pcs, h \in Hints, events \in Draft1_Events :
       recordExecutionMulti(pc, events, Len(events), h.dest_reg, h.is_branch)
  /\ nfree' = nfree + 1
  /\ UNCHANGED <<scenario, objdump, script, options_set>>

Draft1_Next == LoadPCInfo \/ Draft1_OnInstruction \/ OnInstructionMulti

Draft1Spec == Draft1_Init /\ [][Draft1_Next]_vars

\* the program that owns a RegisterArray<10>; the generator is left alone
RegisterNext ==
  \/ Register_write
  \/ Register_read
  \/ Accessor_assign
  \/ Accessor_set_bit
  \/ Accessor_bits
  \/ write_word
  \/ read_word_safe

RegisterInit == Init /\ scenario = "plain_call"

RegisterSpec == RegisterInit /\ [][RegisterNext]_vars

(***************************************************************************)
(* Vocabulary of the properties                                            *)
(***************************************************************************)
RECURSIVE SelfSum(_, _)
\* sum over the PCs in S of self_events[pc][i]
SelfSum(S, i) ==
  IF S = {} THEN 0
  ELSE LET p == CHOOSE x \in S : TRUE IN info[p].event[i] + SelfSum(S \ {p}, i)

\* the host has loaded its program and streamed its whole trace, nothing more
TraceDone(name) ==
  scenario = name /\ objdump = << >> /\ script = << >> /\ nfree = 0

\* the step is a recordExecution call
IsRecord == steps' = steps + 1

Edge(from_pc, to_pc) == At(calls, <<from_pc, to_pc>>, NewCallTargetInfo)

\* every call edge but `key` is the same before and after the step
OtherEdgesKept(key) ==
  /\ DOMAIN calls' \ {key} = DOMAIN calls \ {key}
  /\ \A k \in DOMAIN calls \ {key} : calls'[k] = calls[k]

(***************************************************************************)
(* C1: for every event index i, the sum over all PCs of self_events[pc][i] *)
(* equals running_totals[i], Bc and Bcm included.                          *)
(***************************************************************************)
C1_SelfSumEqualsTotals ==
  \A i \in EventIdx : SelfSum(DOMAIN info, i) = accumulated_events[i]

(***************************************************************************)
(* C2: the plain call/return trace ends with CallEdge(0x1004 -> 0x2000)    *)
(* count 1 and inclusive Ir 2, an empty shadow stack and no branch site;   *)
(* and whenever a branch instruction goes non-sequentially into the        *)
(* function of the caller of a frame that a CALL pushed and that is on top *)
(* of the stack, exactly that frame is popped and its window is added to   *)
(* its edge.                                                               *)
(***************************************************************************)
C2_ScenarioEnd ==
  TraceDone("plain_call") =>
    /\ Edge(4100, 8192).count = 1
    /\ Edge(4100, 8192).inclusive_events[EVENT_IR] = 2
    /\ DOMAIN calls = {<<4100, 8192>>}
    /\ call_stack = << >>
    /\ DOMAIN branches = {}

C2_ReturnPopsCallFrame ==
  ( /\ IsRecord
    /\ last_pc # 0
    /\ last_was_branch
    /\ last_pc' # last_pc + last_inst_size
    /\ call_stack # << >>
    /\ ~Top(call_stack).is_tail_call
    /\ ~Top(call_stack).is_fall_through
    /\ info'[last_pc'].func = FuncAt(Engine, Top(call_stack).caller_pc) )
  =>
    LET f == Top(call_stack)
        key == <<f.caller_pc, f.callee_pc>>
    IN
    /\ call_stack' = Pop(call_stack)
    /\ calls'[key].count = calls[key].count
    /\ \A i \in EventIdx :
         calls'[key].inclusive_events[i] =
           calls[key].inclusive_events[i]
             + (accumulated_events'[i] - f.events_at_entry[i])
    /\ OtherEdgesKept(key)

C2_PlainCallReturn == [][C2_ScenarioEnd' /\ C2_ReturnPopsCallFrame]_vars

C2_Witness ==
  /\ TraceDone("plain_call")
  /\ steps = 5
  /\ last_type = "RETURN"
  /\ Edge(4100, 8192).inclusive_events[EVENT_IR] = 2

(***************************************************************************)
(* C3: the tail-call trace ends with the edges (0x1004 -> 0x2000) and      *)
(* (0x2004 -> 0x3000) at count 1 each, and the transition from g back into *)
(* main is handled as a RETURN whose delta is added to both edges.         *)
(***************************************************************************)
C3_TailCallScenario ==
  TraceDone("tail_call") =>
    /\ Edge(4100, 8192).count = 1
    /\ Edge(8196, 12288).count = 1
    /\ last_type = "RETURN"
    /\ Edge(8196, 12288).inclusive_events[EVENT_IR] > 0
    /\ Edge(4100, 8192).inclusive_events[EVENT_IR] > 0

(***************************************************************************)
(* C4: when a RETURN pops a frame that a CALL pushed, the inclusive events *)
(* added to the frame's edge are the sum of the deltas of the instructions *)
(* recorded from the callee's first instruction up to the instruction      *)
(* before the return target, whatever the deltas are.                      *)
(***************************************************************************)
C4_InclusiveStep ==
  ( /\ IsRecord
    /\ last_type' = "RETURN"
    /\ call_stack # << >>
    /\ ~Top(call_stack).is_tail_call
    /\ ~Top(call_stack).is_fall_through )
  =>
    LET f == Top(call_stack)
        key == <<f.caller_pc, f.callee_pc>>
    IN \A i \in EventIdx :
         calls'[key].inclusive_events[i] - Edge(key[1], key[2]).inclusive_events[i]
           = window[Len(call_stack)][i]

C4_InclusiveIsCalleeCost == [][C4_InclusiveStep]_vars

(***************************************************************************)
(* C5: for every call edge e and every event index i,                      *)
(* e.inclusive_events[i] <= running_totals[i], also when frames with the   *)
(* same (caller_pc, callee_pc) key are nested on the shadow stack.         *)
(***************************************************************************)
C5_InclusiveBelowTotals ==
  \A k \in DOMAIN calls : \A i \in EventIdx :
    ~ULess(accumulated_events[i], calls[k].inclusive_events[i])

(***************************************************************************)
(* C6 as claimed: every PC p with self_events[p][Bc] > 0 has a branch site *)
(* with total_executed = self_events[p][Bc], whatever the host records.    *)
(***************************************************************************)
C6_BcIsTotalExecuted ==
  \A p \in DOMAIN info :
    info[p].event[EVENT_BC] > 0 =>
      /\ p \in DOMAIN branches
      /\ branches[p].total_executed = info[p].event[EVENT_BC]

(***************************************************************************)
(* C6 amended: for every PC p, self_events[p][Bc] is the total_executed of *)
(* p's branch site (0 when p has none) plus the Bc counts the host itself  *)
(* credited to p through record.                                           *)
(***************************************************************************)
C6_BcIsTotalExecutedPlusHost ==
  \A p \in DOMAIN info :
    info[p].event[EVENT_BC] =
      At(branches, p, NewBranchInfo).total_executed
        + At(credited, p, ZeroEvents)[EVENT_BC]

C6_Witness ==
  \E p \in DOMAIN branches :
    /\ branches[p].total_executed > 0
    /\ At(credited, p, ZeroEvents)[EVENT_BC] > 0

(***************************************************************************)
(* C7: every branch site s has                                             *)
(* s.total_executed = s.taken_count + s.fallthrough_count.                 *)
(***************************************************************************)
C7_TotalIsTakenPlusFallthrough ==
  \A p \in DOMAIN branches :
    branches[p].total_executed =
      branches[p].taken_count + branches[p].fallthrough_count

C7_Witness ==
  \E p \in DOMAIN branches :
    branches[p].taken_count > 1 /\ branches[p].fallthrough_count > 0

(***************************************************************************)
(* C8: with loop loaded at 0x5000..0x500C, four bodies and then 0x5010     *)
(* leave BranchSite[0x500C] with taken_target 0x5000, taken_count 3,       *)
(* fallthrough_target 0x5010, fallthrough_count 1, total_executed 4,       *)
(* self_events[0x500C][Bc] = 4 and self_events[0x500C][Bcm] >= 1.          *)
(***************************************************************************)
C8_LoopScenario ==
  TraceDone("loop") =>
    /\ 20492 \in DOMAIN branches
    /\ branches[20492] =
         [total_executed |-> 4, taken_target |-> 20480, taken_count |-> 3,
          fallthrough_target |-> 20496, fallthrough_count |-> 1]
    /\ info[20492].event[EVENT_BC] = 4
    /\ info[20492].event[EVENT_BCM] >= 1

(***************************************************************************)
(* C9: the save-helper trace leaves the call ledger with edge              *)
(* (0x1004 -> 0x8000) count 1 and edge (0x1004 -> 0x7000) count 1, and no  *)
(* call edge whose from_pc is 0x7004.                                      *)
(***************************************************************************)
C9_SaveHelperScenario ==
  TraceDone("save_helper") =>
    /\ Edge(4100, 32768).count = 1
    /\ Edge(4100, 28672).count = 1
    /\ \A k \in DOMAIN calls : k[1] # 28676

C9_Witness ==
  /\ TraceDone("save_helper")
  /\ steps = 4
  /\ last_type = "CALL"
  /\ <<4100, 32768>> \in DOMAIN calls
  /\ Len(call_stack) = 2

(***************************************************************************)
(* C10: the fall-through trace ends with CallEdge(0x6004 -> 0x6008) count  *)
(* 1 flagged is_fall_through; and whenever an instruction that is no       *)
(* branch, in a named NORMAL function, is followed sequentially by an      *)
(* instruction of a differently named function, the edge (from_pc, to_pc)  *)
(* gets count + 1 and the is_fall_through flag, and exactly one frame      *)
(* flagged is_fall_through, holding the running totals, is pushed.         *)
(***************************************************************************)
C10_ScenarioEnd ==
  TraceDone("fall_through") =>
    /\ Edge(24580, 24584).count = 1
    /\ Edge(24580, 24584).is_fall_through
    /\ DOMAIN calls = {<<24580, 24584>>}
    /\ Len(call_stack) = 1

C10_FallThroughStep ==
  ( /\ IsRecord
    /\ last_pc # 0
    /\ ~last_was_branch
    /\ last_func_name # ""
    /\ info[last_pc].func_type = "NORMAL"
    /\ info'[last_pc'].func # info[last_pc].func
    /\ last_pc' = last_pc + last_inst_size )
  =>
    LET key == <<last_pc, last_pc'>> IN
    /\ calls'[key].count = Edge(key[1], key[2]).count + 1
    /\ calls'[key].is_fall_through
    /\ calls'[key].inclusive_events = Edge(key[1], key[2]).inclusive_events
    /\ OtherEdgesKept(key)
    /\ Len(call_stack') = Len(call_stack) + 1
    /\ Pop(call_stack') = call_stack
    /\ Top(call_stack').is_fall_through
    /\ ~Top(call_stack').is_tail_call
    /\ Top(call_stack').caller_pc = last_pc
    /\ Top(call_stack').callee_pc = last_pc'
    /\ Top(call_stack').events_at_entry = accumulated_events'

C11_ReturnStep ==
  /\ Len(call_stack') >= 0
  /\ ( IsRecord /\ last_type' = "RETURN" /\ call_stack # << >> )
     =>
       LET n == Len(call_stack) IN
       /\ call_stack' =
            IF Top(call_stack).is_tail_call /\ n >= 2
            THEN SubSeq(call_stack, 1, n - 2)
            ELSE SubSeq(call_stack, 1, n - 1)
       /\ n - Len(call_stack') \in {1, 2}

C11_ReturnDepth == [][C11_ReturnStep]_vars

\* a RETURN has closed a tail chain: two frames went at once
C11_Witness ==
  /\ last_type = "RETURN"
  /\ prev_depth - Len(call_stack) = 2

(***************************************************************************)
(* C12: over a trace of a program whose calls and returns are properly     *)
(* nested, the greatest depth the shadow stack has reached equals the      *)
(* deepest nesting of calls not yet returned, and the stack is empty once  *)
(* every call has returned.                                                *)
(***************************************************************************)
\* For the traces of programs whose calls and returns are properly nested:
\* the number of calls entered and not yet returned, after each record
CallNest(name) ==
  CASE name = "plain_call" -> <<0, 0, 1, 1, 0>>
    [] name = "call_costs" -> <<0, 0, 1, 1, 0>>
    [] name = "self_recursion" -> <<0, 1, 1, 2, 2, 1, 1, 0>>

NestedScenarios == {"plain_call", "call_costs", "self_recursion"}

RECURSIVE MaxOf(_, _)
\* the greatest of the first n elements of a sequence of naturals
MaxOf(seq, n) ==
  IF n = 0 THEN 0
  ELSE LET m == MaxOf(seq, n - 1) IN IF seq[n] > m THEN seq[n] ELSE m

C12_MaxDepthIsDeepestNest ==
  ( /\ scenario \in NestedScenarios
    /\ nfree = 0
    /\ steps >= 1 )
  =>
    /\ max_depth = MaxOf(CallNest(scenario), steps)
    /\ CallNest(scenario)[steps] = 0 => call_stack = << >>

(***************************************************************************)
(* C13: after the N-th record call, for every event index i,               *)
(* running_totals[i] is the sum of the i-th event deltas the host passed   *)
(* to those N calls: every record adds exactly its own delta, whatever     *)
(* transition it makes the engine handle, and nothing else changes the     *)
(* running totals.                                                         *)
(***************************************************************************)
RECURSIVE CreditedSum(_, _)
\* sum over the PCs in S of the i-th event deltas the host passed for them
CreditedSum(S, i) ==
  IF S = {} THEN 0
  ELSE LET p == CHOOSE x \in S : TRUE IN credited[p][i] + CreditedSum(S \ {p}, i)

C13_TotalsAreHostSum ==
  \A i \in EventIdx : accumulated_events[i] = CreditedSum(DOMAIN credited, i)

C13_TotalsStep ==
  IF IsRecord
  THEN \A i \in EventIdx :
         accumulated_events'[i] =
           accumulated_events[i]
             + (credited'[last_pc'][i] - At(credited, last_pc', ZeroEvents)[i])
  ELSE accumulated_events' = accumulated_events

C13_TotalsAreSumOfDeltas == [][C13_TotalsAreHostSum' /\ C13_TotalsStep]_vars

\* a call and a return have been handled between records of different cost
C13_Witness ==
  /\ TraceDone("call_costs")
  /\ last_type = "RETURN"
  /\ accumulated_events[EVENT_IR] = 15
  /\ \E k \in DOMAIN calls : calls[k].inclusive_events[EVENT_IR] > 0

(***************************************************************************)
(* C14: a record on a PC that has no entry in the PC index creates an      *)
(* entry with function "unknown", file "unknown", line 0 and kind NORMAL,  *)
(* credits the event count to it and goes on; the trace that is only       *)
(* record(0x9999, Ir, 5) leaves self_events[0x9999][Ir] = 5 and no call    *)
(* edge, branch site or jump edge.                                         *)
(***************************************************************************)
C14_ScenarioEnd ==
  TraceDone("unknown_pc") =>
    /\ info[39321].event = [ZeroEvents EXCEPT ![EVENT_IR] = 5]
    /\ DOMAIN calls = {}
    /\ DOMAIN branches = {}
    /\ DOMAIN jumps = {}
    /\ call_stack = << >>

C14_SynthesisStep ==
  ( IsRecord /\ last_pc' \notin DOMAIN info )
  =>
    LET pc == last_pc' IN
    /\ DOMAIN info' = DOMAIN info \cup {pc}
    /\ info'[pc].func = "unknown"
    /\ info'[pc].file = "unknown"
    /\ info'[pc].line = 0
    /\ info'[pc].func_type = "NORMAL"
    /\ info'[pc].event = credited'[pc]
    /\ \A i \in EventIdx :
         accumulated_events'[i] = accumulated_events[i] + credited'[pc][i]
    /\ last_func_name' = "unknown"

C14_UnknownPcIsSynthesized == [][C14_ScenarioEnd' /\ C14_SynthesisStep]_vars

C14_Witness ==
  /\ TraceDone("unknown_pc")
  /\ steps = 1
  /\ info[39321].func = "unknown"
  /\ info[39321].event[EVENT_IR] = 5

(***************************************************************************)
(* C15: a record called with an event index >= MAX_EVENTS ignores the      *)
(* increment: no self event of any PC and no running total changes, no     *)
(* store goes outside the event arrays, and no other state of the engine   *)
(* is corrupted: every entry of the PC index keeps its function, kind,     *)
(* file and line.                                                          *)
(***************************************************************************)
C15_IgnoredStep ==
  ( IsRecord /\ last_event' >= MAX_EVENTS )
  =>
    /\ accumulated_events' = accumulated_events
    /\ \A p \in DOMAIN info :
         /\ p # last_pc => info'[p].event = info[p].event
         /\ info'[p].func = info[p].func
         /\ info'[p].func_type = info[p].func_type
         /\ info'[p].file = info[p].file
         /\ info'[p].line = info[p].line
    /\ oob_write' = oob_write

C15_OutOfRangeEventIgnored == [][C15_IgnoredStep]_vars

(***************************************************************************)
(* C16: a RETURN that is classified while the shadow stack is empty is     *)
(* ignored: the stack stays empty, no call edge is created, and no         *)
(* inclusive cost, count, branch site or jump edge changes.                *)
(***************************************************************************)
C16_IgnoredStep ==
  ( IsRecord /\ last_type' = "RETURN" /\ call_stack = << >> )
  =>
    /\ call_stack' = << >>
    /\ calls' = calls
    /\ branches' = branches
    /\ jumps' = jumps

C16_ReturnOnEmptyStackIgnored == [][C16_IgnoredStep]_vars

\* a restore helper has gone back to a function while no frame was open
C16_Witness ==
  /\ last_type = "RETURN"
  /\ prev_depth = 0
  /\ call_stack = << >>
  /\ info[last_pc].func_type = "NORMAL"

C18_MultiStep ==
  ( /\ IsRecord
    /\ last_call' = "recordExecutionMulti"
    /\ last_pc' \notin DOMAIN info )
  =>
    LET pc == last_pc'
        d == [i \in EventIdx |-> credited'[pc][i] - At(credited, pc, ZeroEvents)[i]]
    IN
    /\ pc \in DOMAIN info'
    /\ info'[pc].func = "unknown"
    /\ info'[pc].file = "unknown"
    /\ info'[pc].line = 0
    /\ info'[pc].event = d
    /\ accumulated_events' = AddEvents(accumulated_events, d)
    /\ (last_type' # "NOT_CLASSIFIED") = (last_pc # 0 /\ last_was_branch)

C18_MultiSynthesizesUnknown == [][C18_MultiStep]_vars

(***************************************************************************)
(* C19: in the file finalize writes, for every active event column i the   *)
(* value on the totals: line equals the sum of column i over the emitted   *)
(* self-cost lines; a PC that has no self-cost line adds nothing to the    *)
(* totals.  Both sums are sums of 64-bit counters.                         *)
(***************************************************************************)
RECURSIVE ColumnOfLines(_, _)
\* sum of the k-th printed column over a sequence of self-cost lines
ColumnOfLines(lines, k) ==
  IF lines = << >> THEN 0
  ELSE Head(lines).events[k] + ColumnOfLines(Tail(lines), k)

C19_TotalsAreSumOfSelfLines ==
  out.written =>
    /\ DOMAIN out.totals = 1 .. num_events
    /\ \A k \in 1 .. num_events :
         out.totals[k] = ColumnOfLines(out.lines, k)

\* four columns are written, Bc among them with a cost, for two PCs, and a
\* PC of the index has no self-cost line
C19_Witness ==
  /\ out.written
  /\ num_events = 4
  /\ Len(out.lines) = 2
  /\ Cardinality(DOMAIN info) > 2
  /\ out.totals[EVENT_BC + 1] > 0
  /\ out.totals[EVENT_IR + 1] > 0

(***************************************************************************)
(* C20: for every classifier input (the previous instruction's branch      *)
(* flag, function and function kind of the previous and the current PC,    *)
(* sequential or not, prev_dest_reg, order and distance of the two PCs,    *)
(* and the function of the caller_pc of the shadow stack's top frame) the  *)
(* classification the engine dispatches is that of the first matching row  *)
(* of the decision table of the transition classifier.  A record that      *)
(* dispatches nothing counts as NONE.                                      *)
(***************************************************************************)
\* the decision table, first match wins
DecisionTable(was_branch, prev_func, curr_func, prev_kind, curr_kind,
              sequential, prev_dest_reg, prev_pc, curr_pc, returns_to_top) ==
  IF ~was_branch /\ prev_func = curr_func THEN "NONE"
  ELSE IF ~was_branch /\ prev_func # curr_func /\ prev_kind = "NORMAL"
  THEN "FALL_THROUGH"
  ELSE IF prev_kind = "RESTORE_HELPER" /\ curr_kind = "NORMAL" /\ ~sequential
  THEN "RETURN"
  ELSE IF prev_kind = "RESTORE_HELPER" /\ curr_kind = "RESTORE_HELPER"
            /\ sequential
  THEN "NONE"
  ELSE IF ~sequential /\ curr_kind = "SAVE_HELPER" THEN "CALL"
  ELSE IF ~sequential /\ curr_kind = "RESTORE_HELPER" THEN "TAIL_CALL"
  ELSE IF ~sequential /\ returns_to_top THEN "RETURN"
  ELSE IF ~sequential /\ prev_func # curr_func /\ prev_dest_reg = 0
  THEN "TAIL_CALL"
  ELSE IF ~sequential /\ prev_func # curr_func THEN "CALL"
  ELSE IF sequential THEN "BRANCH"
  ELSE IF curr_pc < prev_pc THEN "BRANCH"
  ELSE IF curr_pc - prev_pc <= 32 THEN "BRANCH"
  ELSE "DIRECT_JUMP"

\* the row of the table for the record that has just been made: the
\* previous instruction is the one of the state before the step, the
\* current PC is last_pc of the state after it
C20_TableRow ==
  DecisionTable(last_was_branch,
                info'[last_pc].func, info'[last_pc'].func,
                info'[last_pc].func_type, info'[last_pc'].func_type,
                last_pc' = last_pc + last_inst_size,
                last_dest_reg, last_pc, last_pc',
                /\ call_stack # << >>
                /\ Top(call_stack).caller_pc \in DOMAIN info'
                /\ info'[last_pc'].func
                     = info'[Top(call_stack).caller_pc].func)

C20_DispatchStep ==
  ( IsRecord /\ last_pc # 0 /\ last_call' = "recordExecution" )
    => (IF last_type' = "NOT_CLASSIFIED" THEN "NONE" ELSE last_type')
         = C20_TableRow

C20_DispatchFollowsTable == [][C20_DispatchStep]_vars

(***************************************************************************)
(* C21: when the previous instruction was a branch, its function is not a  *)
(* RESTORE_HELPER and the current PC is sequential (curr_pc = prev_pc +    *)
(* prev_inst_size), the transition is classified BRANCH (not taken) and    *)
(* counted as a fall-through outcome of the branch site at prev_pc, also   *)
(* when the current PC belongs to another function than the previous PC.   *)
(***************************************************************************)
C21_SequentialStep ==
  ( /\ IsRecord
    /\ last_call' = "recordExecution"
    /\ last_pc # 0
    /\ last_was_branch
    /\ info'[last_pc].func_type # "RESTORE_HELPER"
    /\ last_pc' = last_pc + last_inst_size )
    => /\ last_type' = "BRANCH"
       /\ last_pc \in DOMAIN branches'
       /\ branches'[last_pc].fallthrough_count
            = At(branches, last_pc, NewBranchInfo).fallthrough_count + 1
       /\ branches'[last_pc].fallthrough_target = last_pc'

C21_SequentialAfterBranchIsBranch == [][C21_SequentialStep]_vars

(***************************************************************************)
(* C22: when the previous instruction was not a branch, prev_func differs  *)
(* from curr_func and the function kind of the previous PC is NORMAL, the  *)
(* transition is classified FALL_THROUGH for every current PC, whether or  *)
(* not curr_pc = prev_pc + prev_inst_size.                                 *)
(***************************************************************************)
C22_FunctionChangeStep ==
  ( /\ IsRecord
    /\ last_call' = "recordExecution"
    /\ last_pc # 0
    /\ ~last_was_branch
    /\ info'[last_pc].func # info'[last_pc'].func
    /\ info'[last_pc].func_type = "NORMAL" )
    => last_type' = "FALL_THROUGH"

C22_FunctionChangeIsFallThrough == [][C22_FunctionChangeStep]_vars

(***************************************************************************)
(* C23: for a non-sequential transition after a branch instruction whose   *)
(* previous PC is not in a restore helper and whose current PC is in a     *)
(* NORMAL function, the classification is RETURN if and only if the shadow *)
(* stack is not empty and the function of the current PC is the function   *)
(* that contains the caller_pc of the top frame; only function names are   *)
(* compared, never the return address.                                     *)
(***************************************************************************)
\* the record follows a branch instruction and is not sequential to it
NonSequentialAfterBranch ==
  /\ IsRecord
  /\ last_call' = "recordExecution"
  /\ last_pc # 0
  /\ last_was_branch
  /\ last_pc' # last_pc + last_inst_size

\* the current PC is in the function of the caller_pc of the top frame
ReturnsToTop ==
  /\ call_stack # << >>
  /\ Top(call_stack).caller_pc \in DOMAIN info'
  /\ info'[last_pc'].func = info'[Top(call_stack).caller_pc].func

C23_ReturnStep ==
  ( /\ NonSequentialAfterBranch
    /\ info'[last_pc].func_type # "RESTORE_HELPER"
    /\ info'[last_pc'].func_type = "NORMAL" )
    => (last_type' = "RETURN" <=> ReturnsToTop)

C23_ReturnIffCallerFunction == [][C23_ReturnStep]_vars

\* a RETURN to a PC of the caller's function that is not the instruction
\* behind the call
C23_Witness ==
  /\ last_type = "RETURN"
  /\ before.pc # 0
  /\ before.was_branch
  /\ last_pc # before.pc + before.inst_size
  /\ info[before.pc].func_type # "RESTORE_HELPER"
  /\ info[last_pc].func_type = "NORMAL"
  /\ before.call_stack # << >>
  /\ info[last_pc].func = info[Top(before.call_stack).caller_pc].func
  /\ last_pc # Top(before.call_stack).caller_pc + 4

(***************************************************************************)
(* C24: a non-sequential transition after a branch instruction between two *)
(* different functions that is not classified RETURN and whose target is   *)
(* not in a helper function is classified TAIL_CALL exactly when           *)
(* prev_dest_reg = 0, and CALL for every other value of prev_dest_reg,     *)
(* -1 (unknown) included.                                                  *)
(***************************************************************************)
C24_CallOrTailStep ==
  ( /\ NonSequentialAfterBranch
    /\ info'[last_pc].func # info'[last_pc'].func
    /\ last_type' # "RETURN"
    /\ ~isCompilerHelper(info'[last_pc'].func_type) )
    => last_type' = (IF last_dest_reg = 0 THEN "TAIL_CALL" ELSE "CALL")

C24_TailCallIffDestRegZero == [][C24_CallOrTailStep]_vars

\* a branch whose destination register is unknown has been classified CALL
C24_Witness ==
  /\ last_type = "CALL"
  /\ before.pc # 0
  /\ before.was_branch
  /\ before.dest_reg = 0 - 1
  /\ last_pc # before.pc + before.inst_size
  /\ info[before.pc].func # info[last_pc].func
  /\ ~isCompilerHelper(info[last_pc].func_type)

(***************************************************************************)
(* C25: a non-sequential transition after a branch instruction between two *)
(* PCs of the same NORMAL function that is not classified RETURN is        *)
(* classified BRANCH when curr_pc < prev_pc or curr_pc - prev_pc <= 32,    *)
(* and DIRECT_JUMP when curr_pc - prev_pc > 32.                            *)
(***************************************************************************)
C25_SameFunctionStep ==
  ( /\ NonSequentialAfterBranch
    /\ info'[last_pc].func = info'[last_pc'].func
    /\ info'[last_pc].func_type = "NORMAL"
    /\ info'[last_pc'].func_type = "NORMAL"
    /\ last_type' # "RETURN" )
    => last_type' = (IF last_pc' < last_pc \/ last_pc' - last_pc <= 32
                     THEN "BRANCH" ELSE "DIRECT_JUMP")

C25_BranchWithinWindow == [][C25_SameFunctionStep]_vars

\* a forward jump of exactly 32 bytes within main has been classified BRANCH
C25_Witness ==
  /\ last_type = "BRANCH"
  /\ before.was_branch
  /\ last_pc = before.pc + 32
  /\ before.inst_size # 32
  /\ info[before.pc].func = info[last_pc].func
  /\ info[last_pc].func_type = "NORMAL"

(***************************************************************************)
(* C26: a record invokes the classifier and dispatches its result exactly  *)
(* when last_pc # 0 and (last_was_branch or last_func_name differs from    *)
(* the function name of the current PC), for every function name, the      *)
(* empty one included; otherwise the record changes only self cost,        *)
(* running totals and the last_* state.                                    *)
(***************************************************************************)
C26_MustDispatch ==
  /\ last_pc # 0
  /\ last_was_branch \/ last_func_name # info'[last_pc'].func

C26_DispatchStep ==
  ( IsRecord /\ last_call' = "recordExecution" /\ last_event' \in EventIdx )
    => /\ (last_type' # "NOT_CLASSIFIED") <=> C26_MustDispatch
       /\ ~C26_MustDispatch =>
            /\ calls' = calls
            /\ jumps' = jumps
            /\ branches' = branches
            /\ call_stack' = call_stack
            /\ real_caller_pc' = real_caller_pc
            /\ real_caller_func' = real_caller_func
            /\ \A pc \in DOMAIN info' \ {last_pc'} :
                 pc \in DOMAIN info /\ info'[pc] = info[pc]

C26_DispatchExactlyWhen == [][C26_DispatchStep]_vars

(***************************************************************************)
(* C27: a RETURN dispatched on a non-empty stack pops the top frame f and  *)
(* adds, for every event index i, exactly running_totals[i] -              *)
(* f.events_at_entry[i] to the inclusive_events of the call edge keyed     *)
(* (f.caller_pc, f.callee_pc), and changes the count of no call edge.      *)
(***************************************************************************)
C27_ReturnStep ==
  ( IsRecord /\ last_type' = "RETURN" /\ call_stack # << >> )
    =>
      LET f == Top(call_stack)
          key == <<f.caller_pc, f.callee_pc>>
      IN
      /\ Len(call_stack') < Len(call_stack)
      /\ call_stack' = SubSeq(call_stack, 1, Len(call_stack'))
      /\ key \in DOMAIN calls'
      /\ \A i \in EventIdx :
           calls'[key].inclusive_events[i]
             = Edge(key[1], key[2]).inclusive_events[i]
                 + (accumulated_events'[i] - f.events_at_entry[i])
      /\ \A k \in DOMAIN calls' :
           calls'[k].count = Edge(k[1], k[2]).count

C27_ReturnAddsDelta == [][C27_ReturnStep]_vars

\* C27 as it holds: the edge of f receives exactly that amount unless f is a
\* tail-call frame lying on a frame of the same call edge; then the edge
\* also receives what the RETURN adds for that lower frame
C27_ReturnOnceStep ==
  ( IsRecord /\ last_type' = "RETURN" /\ call_stack # << >> )
    =>
      LET n == Len(call_stack)
          f == Top(call_stack)
          key == <<f.caller_pc, f.callee_pc>>
          lower == call_stack[n - 1]
          again == /\ f.is_tail_call
                   /\ n >= 2
                   /\ <<lower.caller_pc, lower.callee_pc>> = key
      IN
      /\ Len(call_stack') < n
      /\ call_stack' = SubSeq(call_stack, 1, Len(call_stack'))
      /\ key \in DOMAIN calls'
      /\ \A i \in EventIdx :
           calls'[key].inclusive_events[i]
             = Edge(key[1], key[2]).inclusive_events[i]
                 + (accumulated_events'[i] - f.events_at_entry[i])
                 + (IF again
                    THEN accumulated_events'[i] - lower.events_at_entry[i]
                    ELSE 0)
      /\ \A k \in DOMAIN calls' :
           calls'[k].count = Edge(k[1], k[2]).count

C27_ReturnAddsDeltaPerFrame == [][C27_ReturnOnceStep]_vars

\* a RETURN has popped a tail-call frame and the frame beneath it, both of
\* the edge 0x1004 -> 0x0, which has received both amounts
C27_Witness ==
  /\ TraceDone("same_edge")
  /\ last_type = "RETURN"
  /\ Len(before.call_stack) = 2
  /\ call_stack = << >>
  /\ Edge(4100, 0).count = 2
  /\ Edge(4100, 0).inclusive_events[EVENT_IR] = 6

(***************************************************************************)
(* C28: when a RETURN pops a tail-call frame and a frame lies beneath it,  *)
(* the amount added to the call edge of that lower frame is the delta that *)
(* was computed for the popped tail-call frame (running_totals minus the   *)
(* events_at_entry of the tail frame), for every event index.  Stated for *)
(* two frames of different call edges.                                     *)
(***************************************************************************)
C28_TailReturnStep ==
  ( /\ IsRecord
    /\ last_type' = "RETURN"
    /\ Len(call_stack) >= 2
    /\ Top(call_stack).is_tail_call
    /\ <<Top(call_stack).caller_pc, Top(call_stack).callee_pc>>
         # <<call_stack[Len(call_stack) - 1].caller_pc,
             call_stack[Len(call_stack) - 1].callee_pc>> )
    =>
      LET f == Top(call_stack)
          lower == call_stack[Len(call_stack) - 1]
          key == <<lower.caller_pc, lower.callee_pc>>
          delta == [i \in EventIdx |-> accumulated_events'[i] - f.events_at_entry[i]]
      IN
      /\ key \in DOMAIN calls'
      /\ \A i \in EventIdx :
           calls'[key].inclusive_events[i]
             = Edge(key[1], key[2]).inclusive_events[i] + delta[i]

C28_LowerEdgeGetsSameDelta == [][C28_TailReturnStep]_vars

(***************************************************************************)
(* C29: a RETURN that pops a tail-call frame closes out the whole tail     *)
(* chain: for a chain of n >= 1 consecutive tail calls made under one      *)
(* original call, after that single RETURN none of the n tail frames of    *)
(* the chain and not the frame of the original call remains on the shadow  *)
(* stack, and the edge of the original call has received inclusive cost.   *)
(***************************************************************************)
\* index of the frame of the original call: the topmost frame of the stack
\* that no tail call pushed (0 if there is none)
OriginalCall(stack) ==
  LET S == {k \in 1 .. Len(stack) : ~stack[k].is_tail_call}
  IN IF S = {} THEN 0 ELSE CHOOSE k \in S : \A j \in S : j <= k

C29_ChainStep ==
  ( /\ IsRecord
    /\ last_type' = "RETURN"
    /\ call_stack # << >>
    /\ Top(call_stack).is_tail_call
    /\ OriginalCall(call_stack) > 0 )
    =>
      LET base == OriginalCall(call_stack)
          original == call_stack[base]
          key == <<original.caller_pc, original.callee_pc>>
      IN
      /\ call_stack' = SubSeq(call_stack, 1, base - 1)
      /\ key \in DOMAIN calls'
      /\ calls'[key].inclusive_events # Edge(key[1], key[2]).inclusive_events

C29_ReturnClosesTailChain == [][C29_ChainStep]_vars

(***************************************************************************)
(* C30: every TAIL_CALL dispatched from a from_pc outside helper functions *)
(* leaves all existing frames in place, pushes exactly one additional      *)
(* frame with is_tail_call = true whose events_at_entry equals the current *)
(* running totals, and increments CallEdge(from_pc, to_pc).count by one,   *)
(* whatever the depth of the stack before the transition (0 included).     *)
(***************************************************************************)
C30_TailCallStep ==
  ( /\ IsRecord
    /\ last_call' = "recordExecution"
    /\ last_type' = "TAIL_CALL"
    /\ ~isCompilerHelper(info'[last_pc].func_type) )
    =>
      LET key == <<last_pc, last_pc'>> IN
      /\ Len(call_stack') = Len(call_stack) + 1
      /\ SubSeq(call_stack', 1, Len(call_stack)) = call_stack
      /\ Top(call_stack').is_tail_call
      /\ Top(call_stack').caller_pc = last_pc
      /\ Top(call_stack').callee_pc = last_pc'
      /\ Top(call_stack').events_at_entry = accumulated_events'
      /\ key \in DOMAIN calls'
      /\ calls'[key].count = Edge(key[1], key[2]).count + 1

C30_TailCallPushesFrame == [][C30_TailCallStep]_vars


(***************************************************************************)
(* C31: a CALL dispatched from a PC of a save helper while a real caller   *)
(* is stored pushes a frame whose caller_pc is the stored real caller PC   *)
(* and increments the edge from that PC, and no edge from the helper PC;   *)
(* a CALL from a NORMAL function into a save helper stores its from_pc as  *)
(* the real caller, pushes a frame for it and increments its edge.         *)
(***************************************************************************)
C31_CallStep ==
  /\ IsRecord
  /\ last_type' = "CALL"

C31_FromSaveHelper ==
  /\ isSaveHelper(TypeAt(Engine, last_pc))
  /\ real_caller_pc # 0

C31_IntoSaveHelper ==
  /\ TypeAt(Engine, last_pc) = "NORMAL"
  /\ isSaveHelper(TypeAt(Engine, last_pc'))

C31_Recorded(caller) ==
  /\ Len(call_stack') = Len(call_stack) + 1
  /\ Top(call_stack').caller_pc = caller
  /\ Top(call_stack').callee_pc = last_pc'
  /\ At(calls', <<caller, last_pc'>>, NewCallTargetInfo).count
       = At(calls, <<caller, last_pc'>>, NewCallTargetInfo).count + 1

C31_CallFromSaveHelperUsesRealCaller ==
  [][C31_CallStep =>
       /\ C31_FromSaveHelper =>
            /\ C31_Recorded(real_caller_pc)
            /\ \A k \in DOMAIN calls' : k[1] # last_pc
       /\ C31_IntoSaveHelper =>
            /\ C31_Recorded(last_pc)
            /\ real_caller_pc' = last_pc]_vars


(***************************************************************************)
(* C32: whatever the engine options are, a record that dispatches a BRANCH *)
(* raises self_events[from_pc][Bc] by exactly one beyond what the host     *)
(* credited in that record, and raises the total_executed of from_pc's     *)
(* branch site by exactly one.                                             *)
(***************************************************************************)
C32_BranchStep ==
  /\ IsRecord
  /\ last_type' = "BRANCH"

C32_EngineAdded(idx) ==
  (info'[last_pc].event[idx] - info[last_pc].event[idx])
    - (At(credited', last_pc, ZeroEvents)[idx]
         - At(credited, last_pc, ZeroEvents)[idx])

C32_BranchAlwaysCounted ==
  [][C32_BranchStep =>
       /\ C32_EngineAdded(EVENT_BC) = 1
       /\ At(branches', last_pc, NewBranchInfo).total_executed
            = At(branches, last_pc, NewBranchInfo).total_executed + 1]_vars


(***************************************************************************)
(* C33: a record that dispatches a BRANCH at from_pc raises                *)
(* self_events[from_pc][Bcm] by exactly one beyond the host's credit if    *)
(* the site then has taken_count > 0 and fallthrough_count > 0, and by     *)
(* nothing otherwise; and a site that was only taken or only fell through  *)
(* has no Bcm but the host's.                                              *)
(***************************************************************************)
C33_BothOutcomes(site) ==
  site.taken_count > 0 /\ site.fallthrough_count > 0

C33_OneSidedHasNoBcm ==
  \A p \in DOMAIN branches :
    ~C33_BothOutcomes(branches[p]) =>
      info[p].event[EVENT_BCM] = At(credited, p, ZeroEvents)[EVENT_BCM]

C33_BcmIffBothOutcomes ==
  /\ []C33_OneSidedHasNoBcm
  /\ [][C32_BranchStep =>
          C32_EngineAdded(EVENT_BCM) =
            IF C33_BothOutcomes(At(branches', last_pc, NewBranchInfo))
            THEN 1 ELSE 0]_vars

C33_Witness ==
  /\ last_type = "BRANCH"
  /\ before.pc \in DOMAIN branches
  /\ C33_BothOutcomes(branches[before.pc])
  /\ branches[before.pc].total_executed > 2
  /\ info[before.pc].event[EVENT_BCM] > At(credited, before.pc, ZeroEvents)[EVENT_BCM]
  /\ \E p \in DOMAIN branches :
       ~C33_BothOutcomes(branches[p]) /\ info[p].event[EVENT_BC] > 0


(***************************************************************************)
(* C34: the jump ledger changes only in a record that dispatches a         *)
(* DIRECT_JUMP or INDIRECT_JUMP from a PC outside the helper functions;    *)
(* every such record makes jumps[from_pc][to_pc] grow by one and changes   *)
(* no other entry; and no jump changes the shadow stack, the call edges or *)
(* the branch sites.                                                       *)
(***************************************************************************)
C34_JumpStep ==
  /\ IsRecord
  /\ last_type' \in {"DIRECT_JUMP", "INDIRECT_JUMP"}

C34_FromHelper == isCompilerHelper(TypeAt([info |-> info'], last_pc))

C34_OnlyJumpsChange ==
  jumps' # jumps => C34_JumpStep /\ ~C34_FromHelper

C34_JumpCounted ==
  (C34_JumpStep /\ ~C34_FromHelper) =>
    jumps' = Put(jumps, <<last_pc, last_pc'>>,
                 At(jumps, <<last_pc, last_pc'>>, 0) + 1)

C34_JumpFrame ==
  C34_JumpStep =>
    /\ call_stack' = call_stack
    /\ calls' = calls
    /\ branches' = branches

C34_JumpLedgerFrame ==
  [][C34_OnlyJumpsChange /\ C34_JumpCounted /\ C34_JumpFrame]_vars


(***************************************************************************)
(* C35: no record is ever classified INDIRECT_JUMP, and for every PC the   *)
(* self events Bi and Bim are exactly the counts the host credited to that *)
(* PC through record.                                                      *)
(***************************************************************************)
C35_BiAndBimAreHostOnly ==
  /\ last_type # "INDIRECT_JUMP"
  /\ \A p \in DOMAIN info :
       /\ info[p].event[EVENT_BI] = At(credited, p, ZeroEvents)[EVENT_BI]
       /\ info[p].event[EVENT_BIM] = At(credited, p, ZeroEvents)[EVENT_BIM]

C35_Witness ==
  /\ last_type = "DIRECT_JUMP"
  /\ \E p \in DOMAIN info :
       /\ info[p].event[EVENT_BI] > 0
       /\ Cardinality({k \in DOMAIN jumps : k[1] = p}) > 1
  /\ \E p \in DOMAIN info : info[p].event[EVENT_BIM] > 0


(***************************************************************************)
(* C36: a record that updates the branch site of from_pc with a taken      *)
(* outcome raises taken_count by one and makes taken_target the target of  *)
(* this outcome, whatever targets were taken before, and leaves the        *)
(* fall-through side alone; a sequential outcome does the same to          *)
(* fallthrough_count and fallthrough_target.                               *)
(***************************************************************************)
C36_SiteStep ==
  /\ C32_BranchStep
  /\ branches' # branches

C36_Sequential == last_pc' = last_pc + last_inst_size

C36_SiteBefore == At(branches, last_pc, NewBranchInfo)

C36_TargetIsMostRecent ==
  [][C36_SiteStep =>
       LET site == branches'[last_pc] IN
       IF C36_Sequential
       THEN /\ site.fallthrough_count = C36_SiteBefore.fallthrough_count + 1
            /\ site.fallthrough_target = last_pc'
            /\ site.taken_count = C36_SiteBefore.taken_count
            /\ site.taken_target = C36_SiteBefore.taken_target
       ELSE /\ site.taken_count = C36_SiteBefore.taken_count + 1
            /\ site.taken_target = last_pc'
            /\ site.fallthrough_count = C36_SiteBefore.fallthrough_count
            /\ site.fallthrough_target = C36_SiteBefore.fallthrough_target]_vars

\* 0x500C was taken to itself and then to 0x5008
C36_Witness ==
  /\ scenario = "any_events"
  /\ steps = 3
  /\ last_type = "BRANCH"
  /\ before.pc = 20492
  /\ last_pc = 20488
  /\ 20492 \in DOMAIN branches
  /\ branches[20492].taken_count = 2
  /\ branches[20492].taken_target = 20488


(***************************************************************************)
(* C37: as long as no record has written into the PC index behind an event *)
(* array, no call edge and no frame of the shadow stack has a caller PC in *)
(* a save or restore helper, and a stored real caller PC is not in a       *)
(* helper either.                                                          *)
(***************************************************************************)
C37_InHelper(pc) == isCompilerHelper(TypeAt(Engine, pc))

C37_NoHelperCaller ==
  ~oob_write =>
    /\ \A k \in DOMAIN calls : ~C37_InHelper(k[1])
    /\ \A n \in 1 .. Len(call_stack) : ~C37_InHelper(call_stack[n].caller_pc)
    /\ real_caller_pc # 0 => ~C37_InHelper(real_caller_pc)

C37_Witness ==
  /\ ~oob_write
  /\ last_type = "CALL"
  /\ isSaveHelper(TypeAt(Engine, before.pc))
  /\ Len(call_stack) = Len(before.call_stack) + 1
  /\ ~C37_InHelper(Top(call_stack).caller_pc)
  /\ \E n \in 1 .. Len(call_stack) : C37_InHelper(call_stack[n].callee_pc)


(***************************************************************************)
(* C38: a record that moves between two PCs of one NORMAL function is not  *)
(* classified CALL, TAIL_CALL or FALL_THROUGH: if it is classified at all  *)
(* it is RETURN, BRANCH or DIRECT_JUMP, no call edge is created or         *)
(* counted and no frame is pushed.                                         *)
(***************************************************************************)
C38_SameNormalFunction(inf, from_pc, to_pc) ==
  /\ from_pc \in DOMAIN inf
  /\ to_pc \in DOMAIN inf
  /\ inf[from_pc].func = inf[to_pc].func
  /\ inf[from_pc].func_type = "NORMAL"
  /\ inf[to_pc].func_type = "NORMAL"

C38_SameFunctionStep ==
  /\ IsRecord
  /\ C38_SameNormalFunction(info', last_pc, last_pc')

C38_SameFunctionIsNoCall ==
  [][C38_SameFunctionStep =>
       /\ last_type' \in {"NOT_CLASSIFIED", "RETURN", "BRANCH", "DIRECT_JUMP"}
       /\ DOMAIN calls' = DOMAIN calls
       /\ \A k \in DOMAIN calls : calls'[k].count = calls[k].count
       /\ Len(call_stack') <= Len(call_stack)]_vars

\* a jump that links to the return-address register, from f into f
C38_Witness ==
  /\ last_type \in {"RETURN", "BRANCH", "DIRECT_JUMP"}
  /\ before.was_branch
  /\ before.dest_reg = 1
  /\ last_pc # before.pc + before.inst_size
  /\ C38_SameNormalFunction(info, before.pc, last_pc)
  /\ call_stack = before.call_stack
  /\ call_stack # << >>


(***************************************************************************)
(* C39: in every record that invokes the classifier the previous PC is in  *)
(* the PC index before the record and the current PC is in it when the     *)
(* classifier runs; a current PC that was never loaded has the function    *)
(* name "unknown" by then, and coming from a NORMAL function of another    *)
(* name the record is classified by the function names: FALL_THROUGH if    *)
(* sequential, else RETURN, TAIL_CALL or CALL, not by the classifier's     *)
(* rule for a PC without an entry.                                         *)
(***************************************************************************)
C39_ClassifiedStep ==
  /\ IsRecord
  /\ last_call' = "recordExecution"
  /\ last_type' # "NOT_CLASSIFIED"

C39_ByFunctionNames ==
  IF last_pc' = last_pc + last_inst_size THEN "FALL_THROUGH"
  ELSE IF ReturnsToTop THEN "RETURN"
  ELSE IF last_dest_reg = 0 THEN "TAIL_CALL" ELSE "CALL"

C39_ClassifierSeesBothEntries ==
  [][C39_ClassifiedStep =>
       /\ last_pc \in DOMAIN info
       /\ last_pc' \in DOMAIN info'
       /\ last_pc' \notin DOMAIN info =>
            /\ info'[last_pc'].func = "unknown"
            /\ (info[last_pc].func_type = "NORMAL" /\ info[last_pc].func # "unknown")
                 => last_type' = C39_ByFunctionNames]_vars

C39_Witness ==
  /\ last_call = "recordExecution"
  /\ last_type \in {"CALL", "TAIL_CALL"}
  /\ before.was_branch
  /\ before.func_name = "main"
  /\ info[last_pc].func = "unknown"
  /\ info[last_pc].file = "unknown"
  /\ \E k \in DOMAIN calls : k[2] = last_pc


(***************************************************************************)
(* C40: every access to a RegisterArray<10> through a RegAddr value uses a *)
(* position below N in the backing array, so none leaves the array.        *)
(***************************************************************************)
C40_AccessInsideArray ==
  /\ reg_index < N
  /\ reg_fault = "none"

====
